---- MODULE Spec2Model ----
(***************************************************************************)
(* Payment verification and subscription activation of the Russian         *)
(* learning bot (TelegramBotHandler in src/src/messageQueue.js, the        *)
(* Database in src/unnamed/part_000, the configuration and the payment     *)
(* webhook in src/unnamed/part_001).                                       *)
(*                                                                         *)
(* Node.js runs one handler segment at a time: a handler gives up control  *)
(* only at an `await`.  Every action below is one such segment, from the   *)
(* resumption of an await (or the call of the handler) to the next await   *)
(* or to the handler's end.                                                *)
(*                                                                         *)
(* Strings are sequences of one-character strings, so that                 *)
(* String.prototype.includes and parseInt are computed, not assumed.       *)
(***************************************************************************)
EXTENDS Integers, Sequences, FiniteSets

(***************************************************************************)
(* Bounds of the model.                                                    *)
(***************************************************************************)
\* Handler invocations (button presses, webhook posts) made in one behaviour.
MaxCalls == 4
\* The value of Date.now() when the bot starts; every reading is Epoch or
\* later, and all readings of one behaviour have the same number of digits.
Epoch == 10

\* Messages handed to addMessage in one behaviour.
MaxMessages == 2
\* callback_query updates the bot receives in one behaviour.
MaxUpdates == 4
\* Top-level generateRussianSentence calls made in one behaviour.
MaxGenerations == 3
\* The Moscow wall clock runs up to this hour of day 0.
MaxHours == 6
\* getTonPriceUSD calls made in one behaviour.
MaxPriceCalls == 3
\* Half hours that pass while the price service is observed.
MaxHalfHours == 3

(***************************************************************************)
(* Program constants.                                                      *)
(***************************************************************************)
MAX_ATTEMPTS == 3
INITIAL_DELAY_MS == 3000
RETRY_DELAY_MS == 3000
USDT_AMOUNT == 1
MICRO_USDT_TO_USDT == 1000000
SUBSCRIPTION_DAYS == 30
MaxPending == 3
USDT_CONTRACT_ADDRESS == "EQCxE6mUtQJKFnGfaROTKOt1lZbDiiX1kCixRv7Nw2Id_sDs"
OtherJettonAddress == "EQ_some_other_jetton_master"

(***************************************************************************)
(* Strings.                                                                *)
(***************************************************************************)
DigitChar == <<"0", "1", "2", "3", "4", "5", "6", "7", "8", "9">>

IsDigit(c) == \E d \in 1..10 : DigitChar[d] = c

DigitValue(c) == (CHOOSE d \in 1..10 : DigitChar[d] = c) - 1

\* Number.prototype.toString / template-literal interpolation of a
\* non-negative integer: its decimal digits.
RECURSIVE ToString(_)
ToString(n) ==
  IF n < 10 THEN << DigitChar[n + 1] >>
  ELSE Append(ToString(n \div 10), DigitChar[(n % 10) + 1])

\* String.prototype.includes
Includes(s, sub) ==
  \E i \in 1..(Len(s) - Len(sub) + 1) : SubSeq(s, i, i + Len(sub) - 1) = sub

\* A JavaScript string is truthy iff it is not empty; an absent field
\* (undefined) is modelled as the empty sequence, which is falsy as well.
Truthy(s) == s # << >>

\* parseInt(s): optional sign, then the longest prefix of decimal digits;
\* NaN when there is none.
NaN == [nan |-> TRUE, value |-> 0]

Num(n) == [nan |-> FALSE, value |-> n]

RECURSIVE DigitsPrefixValue(_, _)
DigitsPrefixValue(s, acc) ==
  IF s = << >> \/ ~IsDigit(Head(s)) THEN acc
  ELSE DigitsPrefixValue(Tail(s), acc * 10 + DigitValue(Head(s)))

ParseInt(s) ==
  LET neg  == s # << >> /\ Head(s) = "-"
      body == IF s # << >> /\ Head(s) \in {"-", "+"} THEN Tail(s) ELSE s
  IN  IF body = << >> \/ ~IsDigit(Head(body)) THEN NaN
      ELSE IF neg THEN Num(0 - DigitsPrefixValue(body, 0))
      ELSE Num(DigitsPrefixValue(body, 0))

\* a >= b in JavaScript, where a may be NaN (then false)
JsGreaterEq(a, b) == ~a.nan /\ a.value >= b

RussianBot == <<"r","u","s","s","i","a","n","-","b","o","t","-">>

\* `russian-bot-${userId}-${Date.now()}`
PaymentReference(userId, t) ==
  RussianBot \o ToString(userId) \o <<"-">> \o ToString(t)

(***************************************************************************)
(* The matcher: the body of one attempt of handleCheckPayment, from the    *)
(* fetched transactions to (paymentFound, foundPaymentData).               *)
(***************************************************************************)
\* A variant that accepts a comment only when it is the reference itself.
InMsgEquals(tx, reference) ==
  /\ Truthy(tx.in_text)
  /\ tx.in_text = reference

\* tx.in_msg.decoded_body.text
InMsgMatches(tx, reference) ==
  /\ Truthy(tx.in_text)
  /\ (tx.in_text = reference \/ Includes(tx.in_text, reference))

\* outMsg.decoded_body.text, for the out_msgs of one transaction
OutMsgTextMatches(tx, reference) ==
  \E k \in 1..Len(tx.out_msgs) :
     LET messageText == tx.out_msgs[k].text
     IN  /\ Truthy(messageText)
         /\ (messageText = reference \/ Includes(messageText, reference))

\* "Check TON transactions first": the loop over transactions
TonPaymentFound(transactions, reference) ==
  \E j \in 1..Len(transactions) :
     \/ InMsgMatches(transactions[j], reference)
     \/ OutMsgTextMatches(transactions[j], reference)

ExpectedAmount == USDT_AMOUNT * MICRO_USDT_TO_USDT

\* A variant that does not look at the transferred amount.
JettonTransferAnyAmount(outMsg, reference) ==
  /\ outMsg.source /\ outMsg.destination
  /\ outMsg.jetton_transfer
  /\ outMsg.jetton_master_address = USDT_CONTRACT_ADDRESS
  /\ outMsg.forward_ton_amount # 0
  /\ Truthy(outMsg.forward_payload)
  /\ Includes(outMsg.forward_payload, reference)

\* One out message as a jetton transfer carrying the reference
JettonTransferMatches(outMsg, reference) ==
  /\ outMsg.source /\ outMsg.destination
  /\ outMsg.jetton_transfer
  /\ outMsg.jetton_master_address = USDT_CONTRACT_ADDRESS
  /\ JsGreaterEq(ParseInt(outMsg.amount), ExpectedAmount)
  /\ outMsg.forward_ton_amount # 0
  /\ Truthy(outMsg.forward_payload)
  /\ (Includes(outMsg.forward_payload, reference)
        \/ outMsg.forward_payload = reference)

\* "If TON payment not found, check TON USDT Jetton"
JettonPaymentFound(transactions, reference) ==
  \E j \in 1..Len(transactions) :
     \E k \in 1..Len(transactions[j].out_msgs) :
        JettonTransferMatches(transactions[j].out_msgs[k], reference)

PaymentQualifies(transactions, paymentData) ==
  \/ TonPaymentFound(transactions, paymentData.reference)
  \/ JettonPaymentFound(transactions, paymentData.reference)

NoPayment == [reference |-> << >>, amount |-> 0, usdtAmount |-> 0, timestamp |-> 0]

\* A variant that scans the payments oldest first.
FoundIndexOldestFirst(paymentsToCheck, transactions) ==
  LET hits == { i \in 1..Len(paymentsToCheck) :
                  PaymentQualifies(transactions, paymentsToCheck[i]) }
  IN  IF hits = {} THEN 0
      ELSE CHOOSE i \in hits : \A h \in hits : h >= i

\* paymentsReversed is scanned from its first element, i.e. paymentsToCheck
\* from its last; the first payment that qualifies ends the scan.
FoundIndex(paymentsToCheck, transactions) ==
  LET hits == { i \in 1..Len(paymentsToCheck) :
                  PaymentQualifies(transactions, paymentsToCheck[i]) }
  IN  IF hits = {} THEN 0
      ELSE CHOOSE i \in hits : \A h \in hits : h <= i

\* A variant that takes any fetched transaction for the newest payment.
MatchAnyTransaction(paymentsToCheck, transactions) ==
  LET i == IF transactions = << >> THEN 0 ELSE Len(paymentsToCheck)
  IN  [ paymentFound     |-> i # 0,
        foundPaymentData |-> IF i = 0 THEN NoPayment ELSE paymentsToCheck[i],
        via              |-> IF i = 0 THEN "none" ELSE "ton",
        qualifying       |-> IF i = 0 THEN 0 ELSE 1 ]

MatchBatch(paymentsToCheck, transactions) ==
  LET i == FoundIndex(paymentsToCheck, transactions)
  IN  [ paymentFound     |-> i # 0,
        foundPaymentData |-> IF i = 0 THEN NoPayment ELSE paymentsToCheck[i],
        via              |-> IF i = 0 THEN "none"
                             ELSE IF TonPaymentFound(transactions, paymentsToCheck[i].reference)
                                  THEN "ton" ELSE "jetton",
        qualifying       |-> Cardinality({ h \in 1..Len(paymentsToCheck) :
                                 PaymentQualifies(transactions, paymentsToCheck[h]) }) ]

\* The reference is somewhere in a transaction: in a comment or in the
\* forward payload of a jetton transfer.
Appears(tx, reference) ==
  \/ Includes(tx.in_text, reference)
  \/ \E k \in 1..Len(tx.out_msgs) :
        \/ Includes(tx.out_msgs[k].text, reference)
        \/ Includes(tx.out_msgs[k].forward_payload, reference)

AnyAppears(transactions, paymentsToCheck) ==
  \E j \in 1..Len(transactions), i \in 1..Len(paymentsToCheck) :
     Appears(transactions[j], paymentsToCheck[i].reference)

(***************************************************************************)
(* Transactions as the ledger API returns them.  A transaction has the     *)
(* text of its in_msg and its out_msgs; an out message has the fields the  *)
(* handler reads (absent text / payload: the empty string).                *)
(***************************************************************************)
NoOutMsgFields ==
  [ text |-> << >>, source |-> TRUE, destination |-> TRUE,
    jetton_transfer |-> FALSE, jetton_master_address |-> "",
    amount |-> << >>, forward_ton_amount |-> 0, forward_payload |-> << >> ]

TextOutMsg(text) == [NoOutMsgFields EXCEPT !.text = text]

JettonOutMsg(master, amount, fwd, payload) ==
  [NoOutMsgFields EXCEPT !.jetton_transfer = TRUE,
                         !.jetton_master_address = master,
                         !.amount = amount,
                         !.forward_ton_amount = fwd,
                         !.forward_payload = payload]

Tx(in_text, value, out_msgs) ==
  [in_text |-> in_text, value |-> value, out_msgs |-> out_msgs]

OneUsdt     == <<"1","0","0","0","0","0","0">>
AlmostUsdt  == <<"9","9","9","9","9","9">>
Noise       == <<"h","i">>

TonTx(reference)       == Tx(reference, 1, << >>)
JettonTx(reference)    == Tx(<< >>, 0, << JettonOutMsg(USDT_CONTRACT_ADDRESS, OneUsdt, 1, reference) >>)
LowJettonTx(reference) == Tx(<< >>, 0, << JettonOutMsg(USDT_CONTRACT_ADDRESS, AlmostUsdt, 1, reference) >>)
NoiseTx                == Tx(Noise, 1, << >>)

(***************************************************************************)
(* State of the bot process.                                               *)
(***************************************************************************)
Users == {1, 2}
\* The ids of the messages handed to addMessage (line 21: Date.now() +
\* Math.random(), one per call).
Messages == 1..MaxMessages
\* The handles setInterval returns.
Handles == {1, 2}
\* Difficulty levels asked for (config.DIFFICULTY_LEVELS has 1..5).
Levels == {1, 2}
\* The sentences the AI API may answer with.
Sentences == {"s1", "s2"}
\* Slots for the generateRussianSentence calls in progress at the same time
\* (the scheduler's loop and the lessons sent after a payment).
Callers == {1, 2}
\* The prices of one TON in USD that CoinGecko may answer with.
Prices == {2, 3}
\* The callback queries Telegram delivers (and may deliver again): the id
\* of the query and the data of the button.
Queries ==
  [ id : {1, 2},
    data : { <<"h","e","l","p">>, <<"s","u","b","s","c","r","i","b","e">> } ]
\* Slots for the handler invocations in progress at the same time.
Procs == {1, 2}

VARIABLES
  pendingPayments,   \* this.pendingPayments: user -> array of payments (absent: << >>)
  checkingPayments,  \* this.checkingPayments: users u with `checking_${u}` in the set
  subscriptions,     \* rows of the subscriptions table, in insertion order
  now,               \* the latest value Date.now() returned
  proc,              \* the handler invocations in progress
  calls              \* handler invocations counted towards MaxCalls

\* The singletons the handlers and the scheduler use.
VARIABLES
  messageQueue,      \* the MessageQueue (src/src/messageQueue.js:3-140)
  telegramBot,       \* the handler's processedCallbacks and its dispatches
  deepseekService,   \* the DeepSeekService (src/src/services/deepseek.js)
  priceService       \* the PriceService (src/src/services/priceService.js)

services == << messageQueue, telegramBot, deepseekService, priceService >>

vars == << pendingPayments, checkingPayments, subscriptions, now, proc, calls,
           services >>

(* An invocation:
     op              the handler
     pc              the await it is suspended at; "idle": no invocation;
                     "returned": the handler's promise is settled and its
                     caller has not resumed yet
     usr             userId
     attempt         handleCheckPayment: the loop variable (= fetches issued)
     paymentsToCheck handleCheckPayment: the array the run scans
     shared          paymentsToCheck is the very array object stored in the map
     found           foundPaymentData; for the webhook, the reference it names
     outcome         what the invocation decided
     acquired        it added the guard key (and did not delete it at once)
     holds           it added the guard key and has not deleted it since
     deletes         checkingPayments.delete calls it made
     threw           an exception reached one of its catch blocks
     lastFetch       how the fetch of the current attempt ended
     fetchErrors     fetches of this run that failed so far
     removed         payments its pendingPayments.delete or slice removed
     appeared        a reference it scans was in a transaction it fetched
     qualifying      scanned payments the batch of the matching attempt paid
     sent            messages it sent to the user (sendMessage resolved)
     timer           the setTimeout it awaits, in ms; 0: none                *)
IdleProc ==
  [ op |-> "none", pc |-> "idle", usr |-> 1, attempt |-> 0,
    paymentsToCheck |-> << >>, shared |-> FALSE, found |-> NoPayment,
    outcome |-> "none", acquired |-> FALSE, holds |-> FALSE, deletes |-> 0,
    threw |-> FALSE, lastFetch |-> "none", fetchErrors |-> 0, removed |-> 0,
    appeared |-> FALSE, qualifying |-> 0, sent |-> 0, timer |-> 0 ]

(***************************************************************************)
(* The message queue (MessageQueue, src/src/messageQueue.js:3-103).        *)
(*   queue              this.queue: the items waiting, first to last; an   *)
(*                      item is [id, retries]                              *)
(*   isProcessing       this.isProcessing                                  *)
(*   processingInterval this.processingInterval: a handle, or 0 for null   *)
(*   intervals          the handles of the interval timers that exist      *)
(*   sending            items whose botInstance.sendMessage is awaited     *)
(*   timeouts           the pending setTimeout calls of line 96: the item  *)
(*                      each will put back, and its delay in ms            *)
(*   added              messages addMessage was called for                 *)
(*   attempts           sendMessageWithRetry calls made for each message   *)
(*   delivered          sends of each message that resolved                *)
(*   dropped            messages given up at line 100                      *)
(***************************************************************************)
NewMessageQueue ==
  [ queue |-> << >>, isProcessing |-> FALSE, processingInterval |-> 0,
    intervals |-> {}, sending |-> {}, timeouts |-> {}, added |-> {},
    attempts |-> [m \in Messages |-> 0],
    delivered |-> [m \in Messages |-> 0], dropped |-> {} ]

(***************************************************************************)
(* The callback de-duplication of the handler (src/src/messageQueue.js     *)
(* lines 163, 197-216) and its handleCallbackQuery calls (310-353).        *)
(*   processedCallbacks this.processedCallbacks: the callbackId strings    *)
(*   dispatches         the handleCallbackQuery calls in progress: the     *)
(*                      query, the number of the call among the calls for  *)
(*                      that query, and the await it is suspended at       *)
(*   dispatched         handleCallbackQuery calls made for each query      *)
(*   rejected           those of them whose promise rejected               *)
(*   updates            callback_query updates received                    *)
(***************************************************************************)
NewTelegramBot ==
  [ processedCallbacks |-> {}, dispatches |-> {},
    dispatched |-> [q \in Queries |-> 0],
    rejected |-> [q \in Queries |-> 0], updates |-> 0 ]

(***************************************************************************)
(* The sentence service (DeepSeekService, src/src/services/deepseek.js).   *)
(*   sentenceCache  this.sentenceCache: level -> sentence ("none": absent) *)
(*   lastCacheDate  this.lastCacheDate: a block key, << >> for null        *)
(*   clock          the Moscow wall clock, in hours since 0:00 of day 0;   *)
(*                  the service is constructed at 5:00                     *)
(*   gen            the top-level generateRussianSentence calls:           *)
(*                    pc         the await the call (or the recursive call *)
(*                               it returned) is suspended at; "idle": no  *)
(*                               call yet; "done": its promise is settled  *)
(*                    level      difficultyLevel, while it runs            *)
(*                    retryCount retryCount of the innermost call, while   *)
(*                               it runs                                   *)
(*                    apiCalls   axios.post calls made for it              *)
(*                    result     the sentence it returned, "rejected", or  *)
(*                               "none" while it runs                      *)
(*                  (a top-level call answered from the cache ends at once *)
(*                  and takes no slot)                                     *)
(*   generations    top-level calls made                                   *)
(*   generated      for each level, the first sentence stored in the cache *)
(*                  since the cache was last reset ("none": none yet)      *)
(***************************************************************************)
IdleGen ==
  [ pc |-> "idle", level |-> 1, retryCount |-> 0, apiCalls |-> 0,
    result |-> "none" ]

NewDeepSeekService ==
  [ sentenceCache |-> [l \in Levels |-> "none"], lastCacheDate |-> << >>,
    clock |-> 5, gen |-> [c \in Callers |-> IdleGen], generations |-> 0,
    generated |-> [l \in Levels |-> "none"] ]

(***************************************************************************)
(* The price service (PriceService, src/src/services/priceService.js).     *)
(*   cache      this.cache: price (0 for null) and timestamp               *)
(*   clock      Date.now(), in ms since the service was constructed        *)
(*   quote      the getTonPriceUSD calls of handleSubscribe:               *)
(*                pc            "idle", "fetch" (axios.get is awaited) or  *)
(*                              "done"                                     *)
(*                now           the Date.now() it read at line 24          *)
(*                result        what it returned (0 for null)              *)
(*                cached        this.cache.price when it returned          *)
(*                tonAmountNano the amount handleSubscribe computed from   *)
(*                              the result                                 *)
(*   requests   getTonPriceUSD calls made                                  *)
(*   fetches    axios.get calls made                                       *)
(***************************************************************************)
IdleQuote ==
  [ pc |-> "idle", now |-> 0, result |-> 0, cached |-> 0, tonAmountNano |-> 0 ]

NewPriceService ==
  [ cache |-> [ price |-> 0, timestamp |-> 0 ], clock |-> 0,
    quote |-> [c \in Callers |-> IdleQuote], requests |-> 0, fetches |-> 0 ]

\* The services as their constructors leave them.
Constructed ==
  /\ messageQueue = NewMessageQueue
  /\ telegramBot = NewTelegramBot
  /\ deepseekService = NewDeepSeekService
  /\ priceService = NewPriceService

Init ==
  /\ pendingPayments = [u \in Users |-> << >>]
  /\ checkingPayments = {}
  /\ subscriptions = << >>
  /\ now = Epoch
  /\ proc = [p \in Procs |-> IdleProc]
  /\ calls = 0
  /\ Constructed

\* A settled promise resumes its awaiting caller in a microtask, which runs
\* before the event loop delivers anything else.
NoneReturned == \A q \in Procs : proc[q].pc # "returned"

\* Invocation p is resumed from the await named `label`.
Awaiting(p, label) == NoneReturned /\ proc[p].pc = label

\* A new invocation takes the first free slot.
CanStart(p) ==
  /\ calls < MaxCalls
  /\ NoneReturned
  /\ Awaiting(p, "idle")
  /\ \A q \in Procs : q < p => proc[q].pc # "idle"

\* The handler ends: its locals are gone, what it did stays on record until
\* its caller resumes.
Return(r) ==
  [r EXCEPT !.pc = "returned", !.paymentsToCheck = << >>, !.shared = FALSE,
            !.attempt = 0, !.lastFetch = "none", !.found = NoPayment,
            !.fetchErrors = 0, !.removed = 0, !.appeared = FALSE,
            !.qualifying = 0]

\* An exception reaches a catch block of handleCheckPayment: the variables
\* of the try block (paymentsToCheck, attempt, foundPaymentData) are out of
\* scope or never read again.
Catch(r, label) ==
  [r EXCEPT !.pc = label, !.threw = TRUE, !.paymentsToCheck = << >>,
            !.shared = FALSE, !.attempt = 0, !.lastFetch = "none",
            !.found = NoPayment, !.fetchErrors = 0, !.removed = 0,
            !.appeared = FALSE, !.qualifying = 0]

\* The caller (handleCallbackQuery after `await this.handle...`, or
\* handlePaymentWebhook after `await handlePaymentSuccess`) resumes.
CallerResumes(p) ==
  /\ proc[p].pc = "returned"
  /\ proc' = [proc EXCEPT ![p] = IdleProc]
  /\ UNCHANGED << pendingPayments, checkingPayments, subscriptions, now,
                  calls, services >>

(***************************************************************************)
(* Database (src/unnamed/part_000).                                        *)
(***************************************************************************)
\* INSERT INTO subscriptions (telegram_user_id, status, expires_at, payment_reference)
createSubscription(rows, telegramUserId, paymentReference, days) ==
  Append(rows, [ telegram_user_id |-> telegramUserId, status |-> "active",
                 days |-> days, payment_reference |-> paymentReference ])

\* A variant that finds no row.
NoActiveSubscription(rows, telegramUserId) == FALSE

\* SELECT ... WHERE telegram_user_id = ? AND status = 'active' ... LIMIT 1
getActiveSubscription(rows, telegramUserId) ==
  \E i \in 1..Len(rows) :
     rows[i].telegram_user_id = telegramUserId /\ rows[i].status = "active"

\* UPDATE subscriptions SET status = 'cancelled' WHERE telegram_user_id = ? AND status = 'active'
cancelSubscription(rows, telegramUserId) ==
  [ i \in 1..Len(rows) |->
      IF rows[i].telegram_user_id = telegramUserId /\ rows[i].status = "active"
      THEN [rows[i] EXCEPT !.status = "cancelled"] ELSE rows[i] ]

(***************************************************************************)
(* handleCheckPayment (src/src/messageQueue.js, lines 603-830).            *)
(* bot.sendMessage and the database calls are network / disk operations:   *)
(* each awaited one either resolves or rejects.                            *)
(***************************************************************************)
\* A variant with one key for all users.
GuardHeldByAnyone(userId) == checkingPayments # {}

\* this.checkingPayments.has(checkKey)
GuardHeld(userId) == userId \in checkingPayments

\* this.checkingPayments.add(checkKey)
GuardAdd(guard, userId) == guard \cup {userId}

\* A variant that leaves the key in the set.
GuardKeep(guard, userId) == guard

\* this.checkingPayments.delete(checkKey)
GuardDelete(guard, userId) == guard \ {userId}

\* The references a fetched batch may carry for a run: those of the payments
\* the run scans and of the payments now registered for its user.
RefsInPlay(p) ==
  { proc[p].paymentsToCheck[i].reference : i \in 1..Len(proc[p].paymentsToCheck) }
    \cup { pendingPayments[proc[p].usr][i].reference :
             i \in 1..Len(pendingPayments[proc[p].usr]) }

TxPool(refs) ==
  { NoiseTx } \cup { TonTx(r) : r \in refs } \cup { JettonTx(r) : r \in refs }
    \cup { LowJettonTx(r) : r \in refs }

\* response.data.transactions of one successful fetch
Batches(refs) ==
  { << >> } \cup { << t >> : t \in TxPool(refs) }
    \cup { << TonTx(a), TonTx(b) >> : a \in refs, b \in refs }

\* Lines 603-638, the guard held: the 'already in progress' send is awaited.
CheckStartDuplicate(r, u) ==
  [r EXCEPT !.op = "check", !.usr = u, !.pc = "dupSend",
            !.outcome = "DuplicateCheckInFlight"]

\* Lines 603-638: the guard test, the guard, the pending-payment test.
CheckStart(p, u) ==
  /\ CanStart(p)
  /\ calls' = calls + 1
  /\ IF GuardHeld(u)
     THEN /\ proc' = [proc EXCEPT ![p] = CheckStartDuplicate(IdleProc, u)]
          /\ UNCHANGED checkingPayments
     ELSE IF pendingPayments[u] = << >>
     THEN \* the key is added, deleted again (line 619), and the send awaited
          /\ proc' = [proc EXCEPT ![p] =
                [IdleProc EXCEPT !.op = "check", !.usr = u, !.pc = "noPendingSend",
                                 !.outcome = "NoPendingIntent", !.deletes = 1]]
          /\ checkingPayments' = GuardDelete(GuardAdd(checkingPayments, u), u)
     ELSE /\ proc' = [proc EXCEPT ![p] =
                [IdleProc EXCEPT !.op = "check", !.usr = u, !.pc = "checkingSend",
                                 !.acquired = TRUE, !.holds = TRUE, !.shared = TRUE,
                                 !.paymentsToCheck = pendingPayments[u]]]
          /\ checkingPayments' = GuardAdd(checkingPayments, u)
  /\ UNCHANGED << pendingPayments, subscriptions, now, services >>

\* Line 607 resolved or rejected: either way the handler is left.
DupSendDone(p) ==
  /\ Awaiting(p, "dupSend")
  /\ \/ proc' = [proc EXCEPT ![p] = Return([@ EXCEPT !.sent = @ + 1])]
     \/ proc' = [proc EXCEPT ![p] = Return([@ EXCEPT !.threw = TRUE])]
  /\ UNCHANGED << pendingPayments, checkingPayments, subscriptions, now,
                  calls, services >>

\* A variant that goes on to the attempts after the message.
NoPendingSendRetries(p) ==
  /\ Awaiting(p, "noPendingSend")
  /\ proc' = [proc EXCEPT ![p].pc = "initialDelay"]
  /\ UNCHANGED << pendingPayments, checkingPayments, subscriptions, now,
                  calls, services >>

\* Lines 620 / 631 resolved: return.  Rejected: the outer catch (line 822).
NoPendingSendDone(p) ==
  /\ Awaiting(p, "noPendingSend")
  /\ \/ proc' = [proc EXCEPT ![p] = Return([@ EXCEPT !.sent = @ + 1])]
     \/ proc' = [proc EXCEPT ![p] = Catch(@, "outerCatchSend")]
  /\ UNCHANGED << pendingPayments, checkingPayments, subscriptions, now,
                  calls, services >>

\* Line 638 resolved: await the initial delay.  Rejected: the outer catch.
CheckingSendDone(p) ==
  /\ Awaiting(p, "checkingSend")
  /\ \/ proc' = [proc EXCEPT ![p].pc = "initialDelay", ![p].sent = @ + 1,
                             ![p].timer = INITIAL_DELAY_MS]
     \/ proc' = [proc EXCEPT ![p] = Catch(@, "outerCatchSend")]
  /\ UNCHANGED << pendingPayments, checkingPayments, subscriptions, now,
                  calls, services >>

\* Lines 641-654: INITIAL_DELAY_MS elapsed; attempt = 1; the fetch is issued.
InitialDelayDone(p) ==
  /\ Awaiting(p, "initialDelay")
  /\ proc' = [proc EXCEPT ![p].pc = "fetch", ![p].attempt = 1, ![p].timer = 0]
  /\ UNCHANGED << pendingPayments, checkingPayments, subscriptions, now,
                  calls, services >>

\* A variant that waits longer after each attempt.
RetryDelayBackoff(attempt) == RETRY_DELAY_MS * attempt

\* Lines 770 / 779: setTimeout(resolve, config.PAYMENT_CHECK.RETRY_DELAY_MS)
RetryDelayMs(attempt) == RETRY_DELAY_MS

\* A variant in which the failure leaves the attempt loop as an exception.
AfterFetchErrorThrows(r) == Catch(r, "innerCatchSend")

\* A variant that gives up at the first failed fetch.
AfterFirstFetchError(r) ==
  [r EXCEPT !.pc = "unavailableSend", !.lastFetch = "failed",
            !.fetchErrors = @ + 1, !.outcome = "ServiceUnavailable"]

\* A variant that retries after every failed fetch.
AfterFetchErrorAlwaysRetry(r) ==
  [r EXCEPT !.pc = "retryDelay", !.lastFetch = "failed", !.fetchErrors = @ + 1,
            !.timer = RETRY_DELAY_MS]

\* Lines 773-785, the catch of one attempt: wait and retry, or, on the last
\* attempt, the 'temporarily unavailable' send and return.
AfterFetchError(r) ==
  IF r.attempt < MAX_ATTEMPTS
  THEN [r EXCEPT !.pc = "retryDelay", !.lastFetch = "failed",
                 !.fetchErrors = @ + 1, !.timer = RetryDelayMs(r.attempt)]
  ELSE [r EXCEPT !.pc = "unavailableSend", !.lastFetch = "failed",
                 !.fetchErrors = @ + 1, !.outcome = "ServiceUnavailable"]

\* Lines 762-771 and 788-811, after the matcher: the store call on a match,
\* the retry delay, or, after the last attempt, the 'not found' send.
AfterMatcher(r, m, seen) ==
  IF m.paymentFound
  THEN [r EXCEPT !.pc = "createSubscription", !.lastFetch = "ok",
                 !.found = m.foundPaymentData, !.outcome = "Matched",
                 !.appeared = @ \/ seen, !.qualifying = m.qualifying]
  ELSE IF r.attempt < MAX_ATTEMPTS
  THEN [r EXCEPT !.pc = "retryDelay", !.lastFetch = "ok", !.appeared = @ \/ seen,
                 !.timer = RetryDelayMs(r.attempt)]
  ELSE [r EXCEPT !.pc = "notFoundSend", !.lastFetch = "ok", !.outcome = "NotFound",
                 !.appeared = @ \/ seen]

\* axios.get rejected.
FetchFailed(p) ==
  /\ Awaiting(p, "fetch")
  /\ proc' = [proc EXCEPT ![p] = AfterFetchError(@)]
  /\ UNCHANGED << pendingPayments, checkingPayments, subscriptions, now,
                  calls, services >>

\* axios.get resolved with `transactions`; the matcher runs (lines 663-760).
FetchDone(p, transactions) ==
  /\ Awaiting(p, "fetch")
  /\ proc' = [proc EXCEPT ![p] =
                AfterMatcher(@, MatchBatch(proc[p].paymentsToCheck, transactions),
                             AnyAppears(transactions, proc[p].paymentsToCheck))]
  /\ UNCHANGED << pendingPayments, checkingPayments, subscriptions, now,
                  calls, services >>

\* Lines 770 / 779: RETRY_DELAY_MS elapsed; attempt++; the next fetch is issued.
RetryDelayDone(p) ==
  /\ Awaiting(p, "retryDelay")
  /\ proc' = [proc EXCEPT ![p].pc = "fetch", ![p].attempt = @ + 1,
                          ![p].lastFetch = "none", ![p].timer = 0]
  /\ UNCHANGED << pendingPayments, checkingPayments, subscriptions, now,
                  calls, services >>

\* The finally block (lines 817-820) on the way out of the handler.
FinallyReturn(r) ==
  Return([r EXCEPT !.holds = FALSE, !.deletes = @ + 1])

\* An awaited send of the inner try resolved (return / fall through: the
\* finally block deletes the key, the handler ends) or rejected (the inner
\* catch, line 814).
InnerSendDone(p, at) ==
  /\ Awaiting(p, at)
  /\ \/ /\ checkingPayments' = GuardDelete(checkingPayments, proc[p].usr)
        /\ proc' = [proc EXCEPT ![p] = FinallyReturn([@ EXCEPT !.sent = @ + 1])]
     \/ /\ proc' = [proc EXCEPT ![p] = Catch(@, "innerCatchSend")]
        /\ UNCHANGED checkingPayments
  /\ UNCHANGED << pendingPayments, subscriptions, now, calls, services >>

\* Line 782 (ServiceUnavailable message) done.
UnavailableSendDone(p) == InnerSendDone(p, "unavailableSend")

\* Line 811 (not-found message) done.
NotFoundSendDone(p) == InnerSendDone(p, "notFoundSend")

\* Line 806: sendImmediateSentence sends the first sentence (line 951), or
\* catches what failed inside it and sends nothing; then the finally block.
ImmediateSentenceDone(p) ==
  /\ Awaiting(p, "immediateSentence")
  /\ checkingPayments' = GuardDelete(checkingPayments, proc[p].usr)
  /\ \E n \in {0, 1} :
        proc' = [proc EXCEPT ![p] = FinallyReturn([@ EXCEPT !.sent = @ + n])]
  /\ UNCHANGED << pendingPayments, subscriptions, now, calls, services >>

\* A variant that removes only the newest payment of the user.
ClearNewestPending(pending, userId) ==
  [pending EXCEPT ![userId] = SubSeq(@, 1, Len(@) - 1)]

\* this.pendingPayments.delete(userId) (line 794)
ClearPending(pending, userId) == [pending EXCEPT ![userId] = << >>]

\* ... seen from the invocations: an array that was the map's entry is no
\* longer the map's.
Unshared(procs, u) ==
  [q \in Procs |-> IF procs[q].usr = u THEN [procs[q] EXCEPT !.shared = FALSE]
                   ELSE procs[q]]

\* After line 794 only foundPaymentData is read (for the message text).
AfterCommit(r, pending) ==
  [r EXCEPT !.pc = "successSend", !.paymentsToCheck = << >>, !.attempt = 0,
            !.lastFetch = "none", !.fetchErrors = 0, !.appeared = FALSE,
            !.qualifying = 0,
            !.removed = Len(pending[r.usr])]

\* A variant that deletes the pending payments before the store answered.
CreateSubscriptionClearsFirst(p) ==
  /\ proc[p].op = "check" /\ Awaiting(p, "createSubscription")
  /\ pendingPayments' = ClearPending(pendingPayments, proc[p].usr)
  /\ \/ /\ subscriptions' = createSubscription(subscriptions, proc[p].usr,
                                proc[p].found.reference, SUBSCRIPTION_DAYS)
        /\ proc' = Unshared([proc EXCEPT ![p] = AfterCommit(@, pendingPayments)], proc[p].usr)
     \/ /\ proc' = Unshared([proc EXCEPT ![p] = Catch(@, "innerCatchSend")], proc[p].usr)
        /\ UNCHANGED subscriptions
  /\ UNCHANGED << checkingPayments, now, calls, services >>

\* Lines 791-803: createSubscription resolved: the row is there, the user's
\* pending payments are deleted, the success message is sent.  Rejected: the
\* inner catch.
CreateSubscriptionDone(p) ==
  /\ proc[p].op = "check" /\ Awaiting(p, "createSubscription")
  /\ \/ /\ subscriptions' = createSubscription(subscriptions, proc[p].usr,
                                proc[p].found.reference, SUBSCRIPTION_DAYS)
        /\ pendingPayments' = ClearPending(pendingPayments, proc[p].usr)
        /\ proc' = Unshared([proc EXCEPT ![p] = AfterCommit(@, pendingPayments)], proc[p].usr)
     \/ /\ proc' = [proc EXCEPT ![p] = Catch(@, "innerCatchSend")]
        /\ UNCHANGED << subscriptions, pendingPayments >>
  /\ UNCHANGED << checkingPayments, now, calls, services >>

\* Line 803 resolved: sendImmediateSentence.  Rejected: the inner catch.
SuccessSendDone(p) ==
  /\ Awaiting(p, "successSend")
  /\ \/ proc' = [proc EXCEPT ![p].pc = "immediateSentence", ![p].sent = @ + 1]
     \/ proc' = [proc EXCEPT ![p] = Catch(@, "innerCatchSend")]
  /\ UNCHANGED << pendingPayments, checkingPayments, subscriptions, now,
                  calls, services >>

\* Line 816 (inner catch) resolved: finally, the handler ends.  Rejected:
\* finally runs and the exception reaches the outer catch (line 822).
InnerCatchSendDone(p) ==
  /\ Awaiting(p, "innerCatchSend")
  /\ checkingPayments' = GuardDelete(checkingPayments, proc[p].usr)
  /\ \/ proc' = [proc EXCEPT ![p] = FinallyReturn([@ EXCEPT !.sent = @ + 1])]
     \/ proc' = [proc EXCEPT ![p].pc = "outerCatchSend", ![p].holds = FALSE,
                             ![p].deletes = @ + 1]
  /\ UNCHANGED << pendingPayments, subscriptions, now, calls, services >>

\* Lines 822-829, the outer catch, after its send resolved: line 827 deletes
\* the key.
OuterCatchAfterSend(r) ==
  Return([r EXCEPT !.holds = FALSE, !.deletes = @ + 1])

\* Line 824 resolved: line 827 runs.  Rejected: the exception leaves the
\* handler before line 827.
OuterCatchSendDone(p) ==
  /\ Awaiting(p, "outerCatchSend")
  /\ \/ /\ checkingPayments' = GuardDelete(checkingPayments, proc[p].usr)
        /\ proc' = [proc EXCEPT ![p] = OuterCatchAfterSend([@ EXCEPT !.sent = @ + 1])]
     \/ /\ proc' = [proc EXCEPT ![p] = Return(@)]
        /\ UNCHANGED checkingPayments
  /\ UNCHANGED << pendingPayments, subscriptions, now, calls, services >>

(***************************************************************************)
(* handleSubscribe (lines 402-493).                                        *)
(***************************************************************************)
\* tonAmountNano with the fallback price: Math.floor((1.0 / 2.5) * 1000000000)
FallbackTonAmountNano == 400000000

\* A variant that keeps the first n elements: slice(0, n).
SliceFirst(a, n) == IF Len(a) <= n THEN a ELSE SubSeq(a, 1, n)

\* Array.prototype.slice(-n)
SliceLast(a, n) == IF Len(a) <= n THEN a ELSE SubSeq(a, Len(a) - n + 1, Len(a))

NewPayment(userId, t) ==
  [ reference  |-> PaymentReference(userId, t),
    amount     |-> FallbackTonAmountNano,
    usdtAmount |-> USDT_AMOUNT * MICRO_USDT_TO_USDT,
    timestamp  |-> t ]

\* A variant that stores the new payment alone.
OnlyNewPayment(existingPayments, newPayment) == << newPayment >>

\* Lines 456-458: existingPayments.push(newPayment); existingPayments.slice(-3)
RecentPayments(existingPayments, newPayment) ==
  SliceLast(Append(existingPayments, newPayment), MaxPending)

\* Line 407: await database.getActiveSubscription
SubscribeStart(p, u) ==
  /\ CanStart(p)
  /\ calls' = calls + 1
  /\ proc' = [proc EXCEPT ![p] =
                [IdleProc EXCEPT !.op = "subscribe", !.usr = u, !.pc = "getActive"]]
  /\ UNCHANGED << pendingPayments, checkingPayments, subscriptions,
                  now, services >>

\* Lines 408-415: the query answered.  An active subscription: one message,
\* return.  None: await the price.  Rejected: the catch sends its message.
SubscribeActiveDone(p) ==
  /\ proc[p].op = "subscribe" /\ Awaiting(p, "getActive")
  /\ \/ /\ getActiveSubscription(subscriptions, proc[p].usr)
        /\ proc' = [proc EXCEPT ![p] = Return([@ EXCEPT !.outcome = "AlreadySubscribed"])]
     \/ /\ ~getActiveSubscription(subscriptions, proc[p].usr)
        /\ proc' = [proc EXCEPT ![p].pc = "price"]
     \/ proc' = [proc EXCEPT ![p] = Return([@ EXCEPT !.threw = TRUE])]
  /\ UNCHANGED << pendingPayments, checkingPayments, subscriptions, now,
                  calls, services >>

\* existingPayments.push(newPayment) seen from the running checks: a run
\* whose paymentsToCheck is the map's array gets the payment; the array set
\* afterwards is a new one (slice).
Pushed(procs, u, newPayment) ==
  [q \in Procs |->
     IF procs[q].shared /\ procs[q].usr = u
     THEN [procs[q] EXCEPT !.paymentsToCheck = Append(@, newPayment),
                           !.shared = FALSE]
     ELSE procs[q]]

\* Lines 417-484: the price answered; the reference is made from Date.now(),
\* which reads the value it read last or a later one; the payment is pushed,
\* the last three are stored; the links are sent.
SubscribePriceDone(p) ==
  /\ proc[p].op = "subscribe" /\ Awaiting(p, "price")
  /\ \E t \in {now, now + 1} :
       LET u == proc[p].usr
           newPayment == NewPayment(u, t)
       IN  /\ now' = t
           /\ pendingPayments' =
                [pendingPayments EXCEPT ![u] = RecentPayments(@, newPayment)]
           /\ proc' = Pushed([proc EXCEPT ![p] =
                                [Return([@ EXCEPT !.outcome = "IntentCreated"])
                                   EXCEPT !.found = newPayment,
                                          !.removed = Len(pendingPayments[u]) + 1
                                                      - Len(pendingPayments'[u])]],
                             u, newPayment)
  /\ UNCHANGED << checkingPayments, subscriptions, calls, services >>

(***************************************************************************)
(* handleUnsubscribe (lines 573-600).                                      *)
(***************************************************************************)
UnsubscribeStart(p, u) ==
  /\ CanStart(p)
  /\ calls' = calls + 1
  /\ proc' = [proc EXCEPT ![p] =
                [IdleProc EXCEPT !.op = "unsubscribe", !.usr = u, !.pc = "getActive"]]
  /\ UNCHANGED << pendingPayments, checkingPayments, subscriptions,
                  now, services >>

\* Lines 580-586: no active subscription: one message, return; else await
\* database.cancelSubscription.
UnsubscribeActiveDone(p) ==
  /\ proc[p].op = "unsubscribe" /\ Awaiting(p, "getActive")
  /\ proc' = IF getActiveSubscription(subscriptions, proc[p].usr)
             THEN [proc EXCEPT ![p].pc = "cancel"]
             ELSE [proc EXCEPT ![p] = Return(@)]
  /\ UNCHANGED << pendingPayments, checkingPayments, subscriptions, now,
                  calls, services >>

\* Lines 586-595: the UPDATE ran; the message is sent.
UnsubscribeCancelDone(p) ==
  /\ proc[p].op = "unsubscribe" /\ Awaiting(p, "cancel")
  /\ subscriptions' = cancelSubscription(subscriptions, proc[p].usr)
  /\ proc' = [proc EXCEPT ![p] = Return([@ EXCEPT !.outcome = "Cancelled"])]
  /\ UNCHANGED << pendingPayments, checkingPayments, now, calls, services >>

(***************************************************************************)
(* POST /webhook/payment -> handlePaymentWebhook -> handlePaymentSuccess   *)
(* (src/unnamed/part_001 lines 142-164, messageQueue.js lines 884-906).    *)
(***************************************************************************)
\* The references the bot issued to a user.
KnownRefs(u) ==
  { pendingPayments[u][i].reference : i \in 1..Len(pendingPayments[u]) }
    \cup { subscriptions[i].payment_reference :
             i \in { j \in 1..Len(subscriptions) : subscriptions[j].telegram_user_id = u } }

\* The request body names a user and a payment reference the bot issued.
WebhookStart(p, u, reference) ==
  /\ CanStart(p)
  /\ calls' = calls + 1
  /\ proc' = [proc EXCEPT ![p] =
                [IdleProc EXCEPT !.op = "webhook", !.usr = u,
                                 !.pc = "createSubscription",
                                 !.found = [NoPayment EXCEPT !.reference = reference]]]
  /\ UNCHANGED << pendingPayments, checkingPayments, subscriptions,
                  now, services >>

\* Line 889: createSubscription(userId, paymentReference, 30) resolved; the
\* message is sent.
WebhookCreateDone(p) ==
  /\ proc[p].op = "webhook" /\ Awaiting(p, "createSubscription")
  /\ subscriptions' = createSubscription(subscriptions, proc[p].usr,
                                         proc[p].found.reference, 30)
  /\ proc' = [proc EXCEPT ![p] = Return([@ EXCEPT !.outcome = "WebhookActivated"])]
  /\ UNCHANGED << pendingPayments, checkingPayments, now, calls, services >>

(***************************************************************************)
(* The bot.                                                                *)
(***************************************************************************)
Next ==
  \/ \E p \in Procs, u \in Users : CheckStart(p, u)
  \/ \E p \in Procs : DupSendDone(p)
  \/ \E p \in Procs : NoPendingSendDone(p)
  \/ \E p \in Procs : CheckingSendDone(p)
  \/ \E p \in Procs : InitialDelayDone(p)
  \/ \E p \in Procs : FetchFailed(p)
  \/ \E p \in Procs : \E b \in Batches(RefsInPlay(p)) : FetchDone(p, b)
  \/ \E p \in Procs : RetryDelayDone(p)
  \/ \E p \in Procs : UnavailableSendDone(p)
  \/ \E p \in Procs : NotFoundSendDone(p)
  \/ \E p \in Procs : CreateSubscriptionDone(p)
  \/ \E p \in Procs : SuccessSendDone(p)
  \/ \E p \in Procs : ImmediateSentenceDone(p)
  \/ \E p \in Procs : InnerCatchSendDone(p)
  \/ \E p \in Procs : OuterCatchSendDone(p)
  \/ \E p \in Procs, u \in Users : SubscribeStart(p, u)
  \/ \E p \in Procs : SubscribeActiveDone(p)
  \/ \E p \in Procs : SubscribePriceDone(p)
  \/ \E p \in Procs, u \in Users : UnsubscribeStart(p, u)
  \/ \E p \in Procs : UnsubscribeActiveDone(p)
  \/ \E p \in Procs : UnsubscribeCancelDone(p)
  \/ \E p \in Procs, u \in Users : \E r \in KnownRefs(u) : WebhookStart(p, u, r)
  \/ \E p \in Procs : WebhookCreateDone(p)
  \/ \E p \in Procs : CallerResumes(p)

Spec == Init /\ [][Next]_vars

(***************************************************************************)
(* The matcher on its own: a run of user 1 waits for a fetch; the payments *)
(* it scans and the batches the ledger returns are drawn from the sets     *)
(* below.                                                                  *)
(***************************************************************************)
\* The same reference inside a longer comment.
Padded(reference) == <<"#">> \o reference \o <<"!">>

TwoUsdt == <<"2","0","0","0","0","0","0">>

\* Payments of user 1, with the expected TON amount of two different prices.
MatchPayments ==
  { [NewPayment(1, t) EXCEPT !.amount = a] :
      t \in {Epoch, Epoch + 1}, a \in {FallbackTonAmountNano, 350000000} }

PaymentLists ==
  { << x >> : x \in MatchPayments }
    \cup { << pair[1], pair[2] >> :
             pair \in { q \in MatchPayments \X MatchPayments :
                          q[1].timestamp <= q[2].timestamp } }

\* Native transfers: the reference as the comment with two amounts, inside
\* a longer comment, and in the comment of a second out message.
NativeTxPool(refs) ==
  { Tx(r, v, << >>) : r \in refs, v \in {0, FallbackTonAmountNano} }
    \cup { Tx(Padded(r), 1, << >>) : r \in refs }
    \cup { Tx(Noise, 1, << TextOutMsg(Noise), TextOutMsg(Padded(r)) >>) : r \in refs }

\* Jetton transfers: two good ones, and ones with a single defect.
JettonTxPool(refs) ==
  { Tx(<< >>, 0, << m >>) :
      m \in UNION { { JettonOutMsg(USDT_CONTRACT_ADDRESS, OneUsdt, 1, r),
                      JettonOutMsg(USDT_CONTRACT_ADDRESS, TwoUsdt, 1, Padded(r)),
                      JettonOutMsg(OtherJettonAddress, OneUsdt, 1, r),
                      JettonOutMsg(USDT_CONTRACT_ADDRESS, AlmostUsdt, 1, r),
                      JettonOutMsg(USDT_CONTRACT_ADDRESS, << >>, 1, r),
                      JettonOutMsg(USDT_CONTRACT_ADDRESS, OneUsdt, 0, r),
                      [JettonOutMsg(USDT_CONTRACT_ADDRESS, OneUsdt, 1, r)
                         EXCEPT !.source = FALSE] } : r \in refs }
          \cup { JettonOutMsg(USDT_CONTRACT_ADDRESS, OneUsdt, 1, Noise),
                 JettonOutMsg(USDT_CONTRACT_ADDRESS, OneUsdt, 1, << >>) } }

MatchTxPool(refs) == { NoiseTx } \cup NativeTxPool(refs) \cup JettonTxPool(refs)

MatchBatches(refs) ==
  { << >> } \cup { << t >> : t \in MatchTxPool(refs) }
    \cup { << NoiseTx, TonTx(r) >> : r \in refs }
    \cup { << LowJettonTx(r), JettonTx(r) >> : r \in refs }
    \cup { << TonTx(a), TonTx(b) >> : a \in refs, b \in refs }
    \cup { << JettonTx(a), TonTx(b) >> : a \in refs, b \in refs }

InitMatch ==
  \E list \in PaymentLists, a \in {1, MAX_ATTEMPTS} :
     /\ pendingPayments = [u \in Users |-> IF u = 1 THEN list ELSE << >>]
     /\ checkingPayments = {1}
     /\ subscriptions = << >>
     /\ now = list[Len(list)].timestamp
     /\ calls = Len(list) + 1
     /\ proc = [p \in Procs |->
                  IF p = 1
                  THEN [IdleProc EXCEPT !.op = "check", !.pc = "fetch", !.usr = 1,
                                        !.attempt = a, !.acquired = TRUE,
                                        !.holds = TRUE, !.shared = TRUE,
                                        !.paymentsToCheck = list]
                  ELSE IdleProc]
     /\ Constructed

\* References that are not the run's: another user's, and one of the same
\* user that has a pending reference as a proper prefix.
ForeignRefs == { PaymentReference(2, Epoch), PaymentReference(1, Epoch * 10) }

NextMatch ==
  \/ \E b \in MatchBatches(RefsInPlay(1) \cup ForeignRefs) : FetchDone(1, b)
  \/ RetryDelayDone(1)

SpecMatch == InitMatch /\ [][NextMatch]_vars

(***************************************************************************)
(* Properties.                                                             *)
(***************************************************************************)
InFlight(p) == proc[p].pc \notin {"idle", "returned"}

\* A handleCheckPayment invocation between its guard.add and its first
\* guard.delete.
InRun(p) == proc[p].op = "check" /\ InFlight(p) /\ proc[p].acquired /\ proc[p].holds

\* Invocation p makes a step (it is resumed, or it is called).
Steps(p) == proc'[p].pc # proc[p].pc

\* C1: at most one subscription row is ever created for a payment reference,
\* whatever handleSubscribe, handleCheckPayment and the payment webhook do.
C1_OneSubscriptionPerReference ==
  \A i, j \in 1..Len(subscriptions) :
     subscriptions[i].payment_reference = subscriptions[j].payment_reference => i = j

\* C2: for every user, at most one handleCheckPayment invocation is between
\* its acquisition of the guard and its release of it.
C2_OneRunPerUser ==
  \A p, q \in Procs :
     (InRun(p) /\ InRun(q) /\ proc[p].usr = proc[q].usr) => p = q

\* C3: an invocation that acquired the guard has released it when it ends,
\* and no guard is held while no run of that user is in flight.
C3_GuardReleased ==
  /\ \A p \in Procs :
        (proc[p].pc = "returned" /\ proc[p].acquired) => ~proc[p].holds
  /\ \A u \in checkingPayments :
        \E p \in Procs : proc[p].op = "check" /\ proc[p].usr = u /\ InFlight(p)

\* C4: a handleCheckPayment call made while a run of the same user is between
\* acquisition and release is rejected as a duplicate; the rejected call
\* changes no pending payment, no subscription and not the guard; and the run
\* that acquired the guard ends having deleted it exactly once.
C4_DuplicateRejectedStep ==
  \A p \in Procs :
     /\ ( /\ proc[p].pc = "idle" /\ proc'[p].op = "check"
          /\ \E q \in Procs \ {p} : InRun(q) /\ proc[q].usr = proc'[p].usr )
        => /\ proc'[p].outcome = "DuplicateCheckInFlight"
           /\ UNCHANGED << pendingPayments, checkingPayments, subscriptions >>
     /\ (proc[p].outcome = "DuplicateCheckInFlight" /\ Steps(p) /\ InFlight(p))
        => /\ proc'[p].pc = "returned"
           /\ UNCHANGED << pendingPayments, checkingPayments, subscriptions >>
     /\ (proc'[p].pc = "returned" /\ proc'[p].acquired) => proc'[p].deletes = 1

C4_DuplicateRejected == [][C4_DuplicateRejectedStep]_vars

\* C5: when a run commits the subscription for a matched payment, every
\* pending payment of that user is removed, whatever its reference, and the
\* pending payments of the other users stay as they are.
C5_CommitStep ==
  \A p \in Procs :
     ( /\ proc[p].op = "check" /\ proc[p].pc = "createSubscription"
       /\ proc'[p].pc = "successSend" )
     => /\ pendingPayments'[proc[p].usr] = << >>
        /\ \A v \in Users \ {proc[p].usr} : pendingPayments'[v] = pendingPayments[v]
        /\ proc'[p].removed = Len(pendingPayments[proc[p].usr])

C5_MatchClearsAllOfUser == [][C5_CommitStep]_vars

\* A run has committed, two pending payments of its user were removed, and
\* another user still has a pending payment.
C5_Witness ==
  \E p \in Procs :
     /\ proc[p].op = "check" /\ proc[p].pc = "successSend"
     /\ proc[p].removed >= 2
     /\ pendingPayments[proc[p].usr] = << >>
     /\ \E v \in Users \ {proc[p].usr} : pendingPayments[v] # << >>

\* C6: a run in which no attempt matched ends ServiceUnavailable exactly
\* when the fetch of attempt MAX_ATTEMPTS failed and NotFound exactly when
\* that fetch succeeded; a failed fetch of an earlier attempt decides nothing.
C6_LastFetchDecides ==
  \A p \in Procs :
     /\ proc[p].pc \in {"unavailableSend", "notFoundSend"}
        => /\ proc[p].attempt = MAX_ATTEMPTS
           /\ proc[p].outcome = "ServiceUnavailable" <=> proc[p].lastFetch = "failed"
           /\ proc[p].outcome = "NotFound" <=> proc[p].lastFetch = "ok"
     /\ proc[p].outcome \in {"ServiceUnavailable", "NotFound"}
        => proc[p].pc \in {"unavailableSend", "notFoundSend", "innerCatchSend",
                           "outerCatchSend", "returned"}
     /\ proc[p].pc \in {"fetch", "retryDelay"}
        => /\ proc[p].outcome = "none"
           /\ proc[p].fetchErrors <= proc[p].attempt

\* Fetches 1 and 2 failed, fetch 3 succeeded without a match: NotFound.
C6_Witness ==
  \E p \in Procs :
     /\ proc[p].pc = "notFoundSend" /\ proc[p].outcome = "NotFound"
     /\ proc[p].fetchErrors = MAX_ATTEMPTS - 1

\* C7: the steps of a run that ends NotFound or ServiceUnavailable change no
\* pending payment of any user and create no subscription, and the run has
\* deleted the guard when it ends.
C7_FailedRunStep ==
  \A p \in Procs :
     (Steps(p) /\ proc'[p].outcome \in {"NotFound", "ServiceUnavailable"})
     => /\ UNCHANGED << pendingPayments, subscriptions >>
        /\ (proc[p].pc \in {"notFoundSend", "unavailableSend"} /\ proc'[p].pc = "returned")
              => proc[p].usr \notin checkingPayments'
        /\ proc[p].pc = "innerCatchSend" => proc[p].usr \notin checkingPayments'
        /\ proc'[p].pc = "returned" => (~proc'[p].holds /\ proc'[p].deletes >= 1)

C8_UnseenMeansNotFound ==
  \A p \in Procs :
     ( /\ proc[p].pc \in {"createSubscription", "notFoundSend", "unavailableSend"}
       /\ proc[p].op = "check" /\ ~proc[p].appeared )
     => proc[p].outcome = "NotFound"

\* C8, amended: when no scanned reference was in any fetched transaction, the
\* run never matches; it ends NotFound if the last fetch succeeded and
\* ServiceUnavailable if it failed; and the user's pending payments are those
\* the run read when it started, unless a handleSubscribe of that user ran
\* meanwhile.
C8_UnseenNeverMatches ==
  \A p \in Procs :
     (proc[p].op = "check" /\ ~proc[p].appeared)
     => /\ proc[p].pc # "createSubscription"
        /\ proc[p].pc \in {"notFoundSend", "unavailableSend"}
           => /\ proc[p].lastFetch = "ok" => proc[p].outcome = "NotFound"
              /\ proc[p].lastFetch = "failed" => proc[p].outcome = "ServiceUnavailable"
              /\ proc[p].shared => pendingPayments[proc[p].usr] = proc[p].paymentsToCheck

\* All fetches succeeded, none carried a scanned reference: NotFound, and the
\* pending payments are the ones the run started with.
C8_Witness ==
  \E p \in Procs :
     /\ proc[p].pc = "notFoundSend" /\ ~proc[p].appeared /\ proc[p].fetchErrors = 0
     /\ proc[p].shared /\ Len(proc[p].paymentsToCheck) >= 2
     /\ proc[p].outcome = "NotFound"

\* The reference is in the comment of the transaction or of one of its out
\* messages.
CommentCarries(tx, reference) ==
  \/ Includes(tx.in_text, reference)
  \/ \E k \in 1..Len(tx.out_msgs) : Includes(tx.out_msgs[k].text, reference)

\* The batch pays the reference: in a comment, or by a jetton transfer.
Pays(b, reference) ==
  \/ \E j \in 1..Len(b) : CommentCarries(b[j], reference)
  \/ \E j \in 1..Len(b) : \E k \in 1..Len(b[j].out_msgs) :
        JettonTransferMatches(b[j].out_msgs[k], reference)

\* C9: when a fetched batch has a transaction whose comment, or the comment
\* of one of its out messages, equals or contains the reference of a pending
\* payment of the user, the attempt ends Matched, whatever the amounts of the
\* transaction and of the payment.
C9_NativeMatchStep ==
  \A b \in MatchBatches(RefsInPlay(1) \cup ForeignRefs) :
     ( /\ FetchDone(1, b)
       /\ \E j \in 1..Len(b), i \in 1..Len(pendingPayments[1]) :
             CommentCarries(b[j], pendingPayments[1][i].reference) )
     => /\ proc'[1].outcome = "Matched"
        /\ proc'[1].pc = "createSubscription"
        /\ Pays(b, proc'[1].found.reference)

C10_TokenMatchStep ==
  \A b \in MatchBatches(RefsInPlay(1) \cup ForeignRefs) :
     ( /\ FetchDone(1, b)
       /\ proc'[1].outcome = "Matched"
       /\ \A j \in 1..Len(b) : ~CommentCarries(b[j], proc'[1].found.reference) )
     => \E j \in 1..Len(b) : \E k \in 1..Len(b[j].out_msgs) :
           LET body == b[j].out_msgs[k]
           IN  /\ body.jetton_master_address = USDT_CONTRACT_ADDRESS
               /\ ~ParseInt(body.amount).nan
               /\ ParseInt(body.amount).value >= USDT_AMOUNT * MICRO_USDT_TO_USDT
               /\ Includes(body.forward_payload, proc'[1].found.reference)

C10_TokenMatchNeedsAllThree == [][C10_TokenMatchStep]_vars

\* A fetched batch carried a scanned reference, in a transfer with a defect,
\* and the attempt did not match.
C10_Witness ==
  /\ proc[1].pc = "retryDelay" /\ proc[1].outcome = "none"
  /\ proc[1].appeared

\* C11: a fetched batch with an out message whose jetton transfer names the
\* configured master address, carries at least the expected amount and has a
\* forward payload that equals or contains the reference of a pending
\* payment makes the attempt end Matched, whatever the other fields of the
\* message are.
C11_TokenMatchStep ==
  \A b \in MatchBatches(RefsInPlay(1) \cup ForeignRefs) :
     ( /\ FetchDone(1, b)
       /\ \E j \in 1..Len(b), i \in 1..Len(pendingPayments[1]) :
            \E k \in 1..Len(b[j].out_msgs) :
               LET body == b[j].out_msgs[k]
               IN  /\ body.jetton_transfer
                   /\ body.jetton_master_address = USDT_CONTRACT_ADDRESS
                   /\ ~ParseInt(body.amount).nan
                   /\ ParseInt(body.amount).value >= USDT_AMOUNT * MICRO_USDT_TO_USDT
                   /\ Includes(body.forward_payload, pendingPayments[1][i].reference) )
     => proc'[1].outcome = "Matched"

C11_TokenMatchThreeSuffice == [][C11_TokenMatchStep]_vars

\* C12: the attempt returns the most recently created payment among those
\* the batch pays: no payment created after the returned one is paid by the
\* batch, and the returned one is.
C12_NewestFirstStep ==
  \A b \in MatchBatches(RefsInPlay(1) \cup ForeignRefs) :
     (FetchDone(1, b) /\ proc'[1].outcome = "Matched")
     => \E i \in 1..Len(proc[1].paymentsToCheck) :
           /\ proc'[1].found = proc[1].paymentsToCheck[i]
           /\ Pays(b, proc[1].paymentsToCheck[i].reference)
           /\ \A h \in (i + 1)..Len(proc[1].paymentsToCheck) :
                 ~Pays(b, proc[1].paymentsToCheck[h].reference)

C12_NewestQualifyingWins == [][C12_NewestFirstStep]_vars

\* Two payments with different references were paid by one batch; the newer
\* one is returned.
C12_Witness ==
  /\ proc[1].pc = "createSubscription" /\ proc[1].qualifying = 2
  /\ Len(proc[1].paymentsToCheck) = 2
  /\ proc[1].paymentsToCheck[1].reference # proc[1].paymentsToCheck[2].reference
  /\ proc[1].found = proc[1].paymentsToCheck[2]

\* handleSubscribe of user u stores its payment in this step.
Stores(u) ==
  \E p \in Procs : /\ proc[p].op = "subscribe" /\ proc[p].usr = u
                   /\ proc[p].pc = "price" /\ proc'[p].pc = "returned"

\* C13: a user's pending payments are at most three, in creation order; a
\* payment stored while fewer than three are pending is appended, and one
\* stored while three are pending takes the place of the oldest only.
C13_PendingStep ==
  \A u \in Users :
     LET old == pendingPayments[u]
         new == pendingPayments'[u]
     IN  /\ Len(new) <= MaxPending
         /\ \A i \in 1..Len(new), j \in 1..Len(new) :
               i < j => new[i].timestamp <= new[j].timestamp
         /\ Stores(u) =>
              \E t \in {now, now + 1} :
                 new = IF Len(old) < MaxPending
                       THEN Append(old, NewPayment(u, t))
                       ELSE << old[2], old[3], NewPayment(u, t) >>

C13_AtMostThreeOldestEvicted == [][C13_PendingStep]_vars

\* A handleSubscribe evicted one payment and left three.
C13_Witness ==
  \E p \in Procs :
     /\ proc[p].op = "subscribe" /\ proc[p].pc = "returned"
     /\ proc[p].removed = 1
     /\ Len(pendingPayments[proc[p].usr]) = MaxPending
     /\ pendingPayments[proc[p].usr][MaxPending] = proc[p].found

\* The pending payments of all users, each with its owner and position.
Intents ==
  { << u, i >> : u \in Users, i \in 1..MaxPending } \cap
  { x \in Users \X (1..MaxPending) : x[2] <= Len(pendingPayments[x[1]]) }

\* C14: two pending payments, of one user or of two, never carry the same
\* reference.
C14_ReferencesUnique ==
  \A x \in Intents, y \in Intents :
     x # y => pendingPayments[x[1]][x[2]].reference
              # pendingPayments[y[1]][y[2]].reference

\* a is the beginning of b.
IsPrefix(a, b) == Len(a) <= Len(b) /\ SubSeq(b, 1, Len(a)) = a

\* A check run of user u that matched stores its subscription in this step
\* and deletes the user's pending payments.
Commits(u) ==
  \E p \in Procs :
     /\ proc[p].op = "check" /\ proc[p].usr = u
     /\ proc[p].pc = "createSubscription" /\ proc[p].outcome = "Matched"
     /\ proc'[p].pc = "successSend"
     /\ Len(subscriptions') = Len(subscriptions) + 1

\* C15: a step after which a user's pending payments are not the ones
\* before it with payments added at the end is either the store of a new
\* payment of this user while three are pending, which drops the oldest, or
\* the commit of a matched run of this user, which drops all.
C15_RemovalStep ==
  \A u \in Users :
     LET old == pendingPayments[u]
         new == pendingPayments'[u]
     IN  ~IsPrefix(old, new) =>
           \/ /\ Stores(u) /\ Len(old) = MaxPending
              /\ SubSeq(new, 1, MaxPending - 1) = SubSeq(old, 2, MaxPending)
           \/ /\ Commits(u) /\ new = << >>

C15_OnlyEvictionOrCommitRemoves == [][C15_RemovalStep]_vars

\* A matched run deleted three pending payments.
C15_Witness ==
  \E p \in Procs :
     /\ proc[p].op = "check" /\ proc[p].pc = "successSend"
     /\ proc[p].removed = MaxPending
     /\ pendingPayments[proc[p].usr] = << >>

\* C16: a check that is not rejected as a duplicate and finds no pending
\* payment of its user has the outcome NoPendingIntent and has released the
\* guard before its first await; from there it only sends its message and
\* returns: it never waits a delay, never fetches, never makes an attempt,
\* and changes neither the subscriptions nor the pending payments nor adds
\* a key to the guard.
C16_NoPendingStep ==
  \A p \in Procs :
     /\ ( /\ proc[p].pc = "idle" /\ proc'[p].op = "check"
          /\ proc'[p].usr \notin checkingPayments
          /\ pendingPayments[proc'[p].usr] = << >> )
        => /\ proc'[p].outcome = "NoPendingIntent"
           /\ proc'[p].pc = "noPendingSend"
           /\ proc'[p].usr \notin checkingPayments'
           /\ ~proc'[p].holds
     /\ proc'[p].outcome = "NoPendingIntent"
        => /\ proc'[p].attempt = 0 /\ proc'[p].lastFetch = "none"
           /\ proc'[p].pc \in {"noPendingSend", "outerCatchSend", "returned"}
     /\ (proc[p].outcome = "NoPendingIntent" /\ Steps(p))
        => /\ subscriptions' = subscriptions
           /\ pendingPayments' = pendingPayments
           /\ checkingPayments' \subseteq checkingPayments
           /\ proc'[p].pc \in {"outerCatchSend", "returned", "idle"}

C17_OneMessagePerCheck ==
  \A p \in Procs :
     (proc[p].op = "check" /\ proc[p].pc = "returned" /\ ~proc[p].threw)
     => proc[p].sent = 1

\* C18: a matched run first stores the subscription (its user, the reference
\* of the matched payment, SUBSCRIPTION_DAYS), then deletes the pending
\* payments of its user, then starts the first lesson, once; the payments
\* are deleted and the lesson started only after the store succeeded, and a
\* run that stored the subscription goes on to the lesson.
C18_ActivationStep ==
  \A p \in Procs :
     (Steps(p) /\ proc[p].op = "check") =>
       /\ (proc[p].pc = "createSubscription" /\ proc'[p].pc # "innerCatchSend")
          => /\ subscriptions' =
                  Append(subscriptions,
                         [ telegram_user_id  |-> proc[p].usr,
                           status            |-> "active",
                           days              |-> SUBSCRIPTION_DAYS,
                           payment_reference |-> proc[p].found.reference ])
             /\ pendingPayments'[proc[p].usr] = << >>
             /\ proc'[p].pc = "successSend"
       /\ proc'[p].pc = "successSend"
          => /\ proc[p].pc = "createSubscription"
             /\ Len(subscriptions') = Len(subscriptions) + 1
       /\ proc'[p].pc = "immediateSentence" => proc[p].pc = "successSend"
       /\ proc[p].pc = "immediateSentence" => proc'[p].pc = "returned"
       /\ proc[p].pc = "successSend" => proc'[p].pc = "immediateSentence"

C18_StoreClearOnboardOnce == [][C18_ActivationStep]_vars

\* C19: a run issues a fetch only when the initial delay or a retry delay
\* has elapsed, each fetch is one attempt more, and there are never more
\* than MAX_ATTEMPTS; while a fetch is awaited the run does nothing else,
\* and the answer is followed by a delay or by the end of the attempts; a
\* run that matched issues no fetch and waits no retry delay.
C19_AttemptStep ==
  \A p \in Procs :
     /\ proc'[p].attempt <= MAX_ATTEMPTS
     /\ proc'[p].pc = "fetch"
        => proc'[p].attempt \in 1..MAX_ATTEMPTS /\ proc'[p].outcome = "none"
     /\ (Steps(p) /\ proc'[p].pc = "fetch")
        => /\ proc[p].pc \in {"initialDelay", "retryDelay"}
           /\ proc'[p].attempt = proc[p].attempt + 1
     /\ (Steps(p) /\ proc[p].pc = "fetch")
        => proc'[p].pc \in {"retryDelay", "createSubscription",
                            "notFoundSend", "unavailableSend"}
     /\ (Steps(p) /\ proc[p].outcome = "Matched")
        => proc'[p].pc \notin {"fetch", "retryDelay", "initialDelay"}

C19_AtMostMaxAttemptsInSequence == [][C19_AttemptStep]_vars

\* A run awaits the fetch of its last attempt after one failed fetch and one
\* answered fetch without a match.
C19_Witness ==
  \E p \in Procs :
     /\ proc[p].pc = "fetch" /\ proc[p].attempt = MAX_ATTEMPTS
     /\ proc[p].fetchErrors = 1

\* C20: a check is rejected as a duplicate exactly when the key of its own
\* user is in the guard, whatever the keys of other users; and no step of a
\* check adds or removes the key of a user other than its own.
C20_PerUserStep ==
  \A p \in Procs :
     /\ (proc[p].pc = "idle" /\ proc'[p].op = "check")
        => ( proc'[p].outcome = "DuplicateCheckInFlight"
             <=> proc'[p].usr \in checkingPayments )
     /\ (Steps(p) /\ proc'[p].pc # "idle"
           /\ (proc[p].op = "check" \/ proc'[p].op = "check"))
        => checkingPayments' \ {proc'[p].usr} = checkingPayments \ {proc'[p].usr}

C20_GuardKeyedPerUser == [][C20_PerUserStep]_vars

\* Two runs, of two users, are between their first and last attempt at the
\* same time, each holding the key of its user.
C20_Witness ==
  \E p \in Procs, q \in Procs :
     /\ proc[p].usr # proc[q].usr
     /\ proc[p].op = "check" /\ proc[q].op = "check"
     /\ proc[p].pc = "fetch" /\ proc[q].pc = "retryDelay"
     /\ proc[p].holds /\ proc[q].holds
     /\ {proc[p].usr, proc[q].usr} \subseteq checkingPayments

\* C21: a handleCheckPayment invocation that took the guard and found pending
\* payments has, when it ends, one of the outcomes Matched, NotFound and
\* ServiceUnavailable, and no longer holds the guard.
C21_EndsInOneOfThree ==
  \A p \in Procs :
     (proc[p].op = "check" /\ proc[p].pc = "returned" /\ proc[p].acquired)
     => /\ proc[p].outcome \in {"Matched", "NotFound", "ServiceUnavailable"}
        /\ ~proc[p].holds

\* C22: when a run that matched and stored its subscription ends (the finally
\* block has deleted the key), its user has no pending payment.
C22_MatchedEndsWithNoPending ==
  \A p \in Procs :
     ( /\ proc[p].op = "check" /\ proc[p].pc = "returned"
       /\ proc[p].outcome = "Matched" /\ ~proc[p].threw )
     => pendingPayments[proc[p].usr] = << >>

\* C24: a run waits INITIAL_DELAY_MS once, after its 'Checking' message and
\* before its first fetch; it waits RETRY_DELAY_MS, the same for every
\* attempt, after each attempt but the last that failed or did not match,
\* and then issues the next fetch; it sets no timer after the last attempt
\* or after a match.
C24_DelayStep ==
  \A p \in Procs :
     /\ proc'[p].timer # 0 <=> proc'[p].pc \in {"initialDelay", "retryDelay"}
     /\ (Steps(p) /\ proc'[p].pc = "initialDelay")
        => /\ proc[p].pc = "checkingSend" /\ proc[p].attempt = 0
           /\ proc'[p].timer = INITIAL_DELAY_MS
     /\ (Steps(p) /\ proc'[p].pc = "fetch")
        => \/ /\ proc'[p].attempt = 1 /\ proc[p].pc = "initialDelay"
              /\ proc[p].timer = INITIAL_DELAY_MS
           \/ /\ proc'[p].attempt > 1 /\ proc[p].pc = "retryDelay"
              /\ proc[p].timer = RETRY_DELAY_MS
     /\ (Steps(p) /\ proc[p].pc = "fetch")
        => ( proc'[p].pc = "retryDelay"
             <=> (proc[p].attempt < MAX_ATTEMPTS /\ proc'[p].outcome # "Matched") )
     /\ (Steps(p) /\ proc'[p].pc = "retryDelay")
        => /\ proc[p].pc = "fetch"
           /\ proc'[p].lastFetch \in {"failed", "ok"}
           /\ proc'[p].timer = RETRY_DELAY_MS
     /\ (Steps(p) /\ proc[p].pc = "retryDelay") => proc'[p].pc = "fetch"

C24_FixedDelaysBetweenAttempts == [][C24_DelayStep]_vars

\* A run waits the retry delay after its second attempt, one of the two
\* having failed and the other having found no match.
C24_Witness ==
  \E p \in Procs :
     /\ proc[p].pc = "retryDelay" /\ proc[p].attempt = 2
     /\ proc[p].timer = RETRY_DELAY_MS /\ proc[p].fetchErrors = 1

\* C25: a fetch that fails is caught in its attempt: no exception leaves the
\* loop, no message is sent by the step, no pending payment, subscription or
\* guard key changes; before the last attempt the run waits the retry delay
\* (and then fetches again), at the last attempt it has the outcome
\* ServiceUnavailable and sends the 'temporarily unavailable' message.
C25_FetchFailureStep ==
  \A p \in Procs :
     /\ FetchFailed(p)
        => /\ ~proc'[p].threw /\ proc'[p].sent = proc[p].sent
           /\ proc'[p].fetchErrors = proc[p].fetchErrors + 1
           /\ UNCHANGED << pendingPayments, subscriptions, checkingPayments >>
           /\ IF proc[p].attempt < MAX_ATTEMPTS
              THEN proc'[p].pc = "retryDelay" /\ proc'[p].outcome = "none"
              ELSE /\ proc'[p].pc = "unavailableSend"
                   /\ proc'[p].outcome = "ServiceUnavailable"
     /\ (Steps(p) /\ proc[p].pc = "retryDelay")
        => proc'[p].pc = "fetch" /\ proc'[p].attempt = proc[p].attempt + 1

C25_FetchFailuresAreCaught == [][C25_FetchFailureStep]_vars

\* After a failed first fetch the run awaits its second fetch, having sent
\* only the 'Checking' message.
C25_Witness ==
  \E p \in Procs :
     /\ proc[p].pc = "fetch" /\ proc[p].attempt = 2
     /\ proc[p].fetchErrors = 1 /\ proc[p].sent = 1 /\ ~proc[p].threw

\* C26: while a run (an invocation that took the guard) is in progress,
\* another handler invocation makes a step only when the run awaits a fetch,
\* the initial delay or a retry delay; in particular none of the same user
\* makes one while the run, having matched, has not yet deleted the pending
\* payments.
C26_YieldStep ==
  \A p \in Procs, q \in Procs :
     ( /\ p # q /\ proc[p].op = "check" /\ proc[p].acquired /\ InFlight(p)
       /\ Steps(q) )
     => /\ proc[p].pc \in {"fetch", "initialDelay", "retryDelay"}
        /\ ~( /\ proc[p].pc = "createSubscription"
              /\ proc'[q].usr = proc[p].usr )

C26_YieldsOnlyAtFetchAndDelays == [][C26_YieldStep]_vars

\* C27: once the subscription is stored, the outcome of sending the success
\* message and the first sentence changes nothing: the row stays, the step
\* touches no pending payment, nothing is sent again, the run goes on to the
\* first sentence and to its end without entering a catch block, and it ends
\* with the guard deleted.
C27_DeliveryStep ==
  \A p \in Procs :
     ( /\ proc[p].op = "check" /\ Steps(p)
       /\ proc[p].pc \in {"successSend", "immediateSentence"} )
     => /\ UNCHANGED << subscriptions, pendingPayments >>
        /\ proc'[p].outcome = "Matched"
        /\ proc'[p].pc = IF proc[p].pc = "successSend"
                         THEN "immediateSentence" ELSE "returned"
        /\ ~proc'[p].threw
        /\ proc'[p].pc = "returned"
           => ~proc'[p].holds /\ proc'[p].usr \notin checkingPayments'

C27_DeliveriesFireAndForget == [][C27_DeliveryStep]_vars

\* C28: when createSubscription rejects in a run that matched, the step
\* changes no pending payment, no subscription and not the guard and sends
\* nothing; from there the run only sends an error message and ends: it
\* never sends the success message or the first sentence, changes no
\* pending payment, and the finally block deletes the key of its user.
C28_StoreFailureStep ==
  \A p \in Procs :
     /\ ( /\ proc[p].op = "check" /\ proc[p].pc = "createSubscription"
          /\ proc'[p].pc # "successSend" /\ Steps(p) )
        => /\ UNCHANGED << pendingPayments, subscriptions, checkingPayments >>
           /\ proc'[p].pc = "innerCatchSend" /\ proc'[p].sent = proc[p].sent
     /\ ( /\ Steps(p) /\ proc[p].outcome = "Matched"
          /\ proc[p].pc \in {"innerCatchSend", "outerCatchSend"} )
        => /\ UNCHANGED << pendingPayments, subscriptions >>
           /\ proc'[p].pc \in {"outerCatchSend", "returned"}
           /\ ~proc'[p].holds
     /\ (Steps(p) /\ proc[p].pc = "innerCatchSend")
        => proc[p].usr \notin checkingPayments'

C28_StoreFailureKeepsPending == [][C28_StoreFailureStep]_vars

\* A run that matched has ended after its store call failed: no
\* subscription exists, its user's payments are still pending and the key
\* is not in the guard.
C28_Witness ==
  \E p \in Procs :
     /\ proc[p].op = "check" /\ proc[p].pc = "returned"
     /\ proc[p].outcome = "Matched" /\ proc[p].threw /\ ~proc[p].holds
     /\ subscriptions = << >>
     /\ pendingPayments[proc[p].usr] # << >>
     /\ proc[p].usr \notin checkingPayments

(***************************************************************************)
(* The bot with a full registry entry: user 1 has made three purchases     *)
(* (three handleSubscribe calls have stored their payments); MoreCalls     *)
(* further handler invocations are made.                                   *)
(***************************************************************************)
MoreCalls == 3

InitFullRegistry ==
  /\ pendingPayments =
       [u \in Users |->
          IF u = 1 THEN RecentPayments(RecentPayments(RecentPayments(<< >>,
                           NewPayment(1, Epoch)), NewPayment(1, Epoch + 1)),
                           NewPayment(1, Epoch + 2))
          ELSE << >>]
  /\ checkingPayments = {}
  /\ subscriptions = << >>
  /\ now = Epoch + 2
  /\ proc = [p \in Procs |-> IdleProc]
  /\ calls = MaxCalls - MoreCalls
  /\ Constructed

SpecFullRegistry == InitFullRegistry /\ [][Next]_vars

\* C29: every payment a run is about to scan (it awaits a fetch) is in the
\* registry entry of its user.
C29_ScannedAreRegistered ==
  \A p \in Procs :
     (proc[p].op = "check" /\ proc[p].pc = "fetch")
     => \A i \in 1..Len(proc[p].paymentsToCheck) :
           \E j \in 1..Len(pendingPayments[proc[p].usr]) :
              pendingPayments[proc[p].usr][j] = proc[p].paymentsToCheck[i]

\* C30: a handleSubscribe whose query finds an active subscription of its
\* user ends there: it stores no payment (no user's pending payments
\* change), reads no clock and builds no reference; and a payment is stored
\* only by a handleSubscribe whose query found none.
C30_AlreadySubscribedStep ==
  \A p \in Procs :
     /\ ( /\ proc[p].op = "subscribe" /\ proc[p].pc = "getActive" /\ Steps(p)
          /\ \E i \in 1..Len(subscriptions) :
                /\ subscriptions[i].telegram_user_id = proc[p].usr
                /\ subscriptions[i].status = "active" )
        => /\ proc'[p].pc = "returned"
           /\ proc'[p].found = NoPayment
           /\ UNCHANGED << pendingPayments, now, subscriptions >>
           /\ ~proc'[p].threw => proc'[p].outcome = "AlreadySubscribed"
     /\ (proc[p].op = "subscribe" /\ Steps(p) /\ proc[p].pc # "price")
        => UNCHANGED pendingPayments
     /\ (proc'[p].op = "subscribe" /\ proc'[p].pc = "price")
        => proc'[p].outcome = "none"

CronDays == 2

\* DAILY_MESSAGE_CRON: '0 * * * *' (minute, hour, day of month, month, day
\* of week)
DAILY_MESSAGE_CRON == << <<"0">>, <<"*">>, <<"*">>, <<"*">>, <<"*">> >>

Minute(t)     == t % 60
Hour(t)       == (t \div 60) % 24
DayOfMonth(t) == 1 + (t \div (60 * 24))
Month(t)      == 1
DayOfWeek(t)  == (t \div (60 * 24)) % 7

\* One field of a cron expression: `*` matches every value, a number matches
\* itself.
FieldMatches(field, value) ==
  \/ field = <<"*">>
  \/ ~ParseInt(field).nan /\ ParseInt(field).value = value

CronMatches(expression, t) ==
  /\ FieldMatches(expression[1], Minute(t))
  /\ FieldMatches(expression[2], Hour(t))
  /\ FieldMatches(expression[3], DayOfMonth(t))
  /\ FieldMatches(expression[4], Month(t))
  /\ FieldMatches(expression[5], DayOfWeek(t))

InitCron ==
  /\ pendingPayments = [u \in Users |-> << >>]
  /\ checkingPayments = {}
  /\ subscriptions = << >>
  /\ proc = [p \in Procs |-> IdleProc]
  /\ now = 0
  /\ calls = 0
  /\ Constructed

\* A minute begins that the expression does not match.
CronQuietMinute ==
  /\ now + 1 < CronDays * 24 * 60
  /\ ~CronMatches(DAILY_MESSAGE_CRON, now + 1)
  /\ now' = now + 1
  /\ UNCHANGED << pendingPayments, checkingPayments, subscriptions, proc,
                  calls, services >>

\* A minute begins that the expression matches: the callback runs
\* sendDailyMessages.
CronFires ==
  /\ now + 1 < CronDays * 24 * 60
  /\ CronMatches(DAILY_MESSAGE_CRON, now + 1)
  /\ now' = now + 1
  /\ calls' = calls + 1
  /\ UNCHANGED << pendingPayments, checkingPayments, subscriptions,
                  proc, services >>

NextCron == CronQuietMinute \/ CronFires

SpecCron == InitCron /\ [][NextCron]_vars

\* C23: sendDailyMessages is called when 9:00 begins, and at no other
\* minute.
C23_BroadcastStep ==
  calls' # calls <=> (Hour(now') = 9 /\ Minute(now') = 0)

C23_BroadcastOnlyAtNine == [][C23_BroadcastStep]_vars

(***************************************************************************)
(* C31  One active subscription per user.                                  *)
(*                                                                         *)
(* In every reachable state each user has at most one subscription row     *)
(* whose status is 'active', whatever the interleaving of handleSubscribe, *)
(* handleCheckPayment, handleUnsubscribe and the payment webhook.          *)
(* createSubscription (part_000:160-179) is a plain INSERT of an 'active'  *)
(* row; neither handleCheckPayment (line 791) nor the webhook's            *)
(* handlePaymentSuccess (line 889) looks for a row the user already has.   *)
(***************************************************************************)
ActiveRows(u) ==
  { i \in DOMAIN subscriptions :
      /\ subscriptions[i].telegram_user_id = u
      /\ subscriptions[i].status = "active" }

C31_OneActiveSubscriptionPerUser ==
  \A u \in Users : Cardinality(ActiveRows(u)) <= 1

(***************************************************************************)
(* The message queue: addMessage, the interval timer and its processBatch, *)
(* sendMessageWithRetry and the re-queue timer (src/src/messageQueue.js    *)
(* lines 19-103).  The bot's own state is not touched.                     *)
(***************************************************************************)
\* Line 27: maxRetries of every queue item.
maxRetries == 3
\* Line 9: this.batchSize.
batchSize == 25

botVars == << pendingPayments, checkingPayments, subscriptions, now, proc, calls >>

\* Lines 43-48: isProcessing = true; processingInterval = setInterval(...),
\* which makes a timer and returns its handle (one no existing timer has).
InstallInterval(q) ==
  LET fresh == CHOOSE h \in Handles \ q.intervals :
                 \A g \in Handles \ q.intervals : h <= g
  IN [q EXCEPT !.isProcessing = TRUE, !.processingInterval = fresh,
               !.intervals = @ \cup {fresh}]

StartProcessingUnguarded(q) == InstallInterval(q)

\* Lines 40-49: startProcessing.
startProcessing(q) == IF q.isProcessing THEN q ELSE InstallInterval(q)

\* Lines 52-59: stopProcessing.
stopProcessing(q) ==
  [q EXCEPT !.intervals = IF q.processingInterval # 0
                          THEN @ \ {q.processingInterval} ELSE @,
            !.processingInterval = 0,
            !.isProcessing = FALSE]

\* Lines 19-37: addMessage.
addMessage(m) ==
  /\ m \notin messageQueue.added
  /\ LET pushed == [messageQueue EXCEPT
                      !.queue = Append(@, [id |-> m, retries |-> 0]),
                      !.added = @ \cup {m}]
     IN messageQueue' = IF ~pushed.isProcessing THEN startProcessing(pushed)
                        ELSE pushed
  /\ UNCHANGED << botVars, telegramBot, deepseekService, priceService >>

\* queue.splice(0, n): the items taken and the items left.
SpliceTaken(queue, n) == SubSeq(queue, 1, IF Len(queue) < n THEN Len(queue) ELSE n)
SpliceLeft(queue, n) == SubSeq(queue, (IF Len(queue) < n THEN Len(queue) ELSE n) + 1, Len(queue))

\* Lines 62-75: the interval timer h fires and processBatch runs up to its
\* await: on an empty queue it stops the processing; otherwise it takes a
\* batch and calls sendMessageWithRetry for each item, which runs up to
\* `await this.botInstance.sendMessage` (line 84).
processBatch(h) ==
  /\ h \in messageQueue.intervals
  /\ IF messageQueue.queue = << >>
     THEN messageQueue' = stopProcessing(messageQueue)
     ELSE LET batch == SpliceTaken(messageQueue.queue, batchSize)
              ids == { batch[i].id : i \in 1..Len(batch) }
          IN messageQueue' =
               [messageQueue EXCEPT
                  !.queue = SpliceLeft(@, batchSize),
                  !.sending = @ \cup { batch[i] : i \in 1..Len(batch) },
                  !.attempts = [m \in Messages |->
                                  IF m \in ids THEN @[m] + 1 ELSE @[m]]]
  /\ UNCHANGED << botVars, telegramBot, deepseekService, priceService >>

\* Lines 84-86: the send of an item resolved.
SendResolved(item) ==
  /\ item \in messageQueue.sending
  /\ messageQueue' = [messageQueue EXCEPT
                        !.sending = @ \ {item},
                        !.delivered[item.id] = @ + 1]
  /\ UNCHANGED << botVars, telegramBot, deepseekService, priceService >>

\* Line 91: the test of the catch block.
CanRetryInclusive(item) == item.retries <= maxRetries

CanRetry(item) == item.retries < maxRetries

\* Line 98: the delay of the re-queue timer, from the incremented count.
RequeueDelayMs(retries) == 5000 * retries

\* Lines 88-101: the send of an item rejected (or botInstance was not set,
\* line 81): the catch block counts the retry and sets the re-queue timer,
\* or gives the message up.
SendRejected(item) ==
  /\ item \in messageQueue.sending
  /\ messageQueue' =
       IF CanRetry(item)
       THEN LET retried == [item EXCEPT !.retries = @ + 1]
            IN [messageQueue EXCEPT
                  !.sending = @ \ {item},
                  !.timeouts = @ \cup { [ item |-> retried,
                                          delay |-> RequeueDelayMs(retried.retries) ] }]
       ELSE [messageQueue EXCEPT !.sending = @ \ {item},
                                 !.dropped = @ \cup {item.id}]
  /\ UNCHANGED << botVars, telegramBot, deepseekService, priceService >>

\* Lines 96-98: the re-queue timer fires: this.queue.unshift(queueItem).
RequeueTimerFires(t) ==
  /\ t \in messageQueue.timeouts
  /\ messageQueue' = [messageQueue EXCEPT !.timeouts = @ \ {t},
                                          !.queue = << t.item >> \o @]
  /\ UNCHANGED << botVars, telegramBot, deepseekService, priceService >>

QueueItems == [ id : Messages, retries : 0..(maxRetries + 1) ]
QueueTimeouts == [ item : QueueItems, delay : { RequeueDelayMs(r) : r \in 0..(maxRetries + 1) } ]

NextQueue ==
  \/ \E m \in Messages : addMessage(m)
  \/ \E h \in Handles : processBatch(h)
  \/ \E item \in QueueItems : SendResolved(item)
  \/ \E item \in QueueItems : SendRejected(item)
  \/ \E t \in QueueTimeouts : RequeueTimerFires(t)

SpecQueue == Init /\ [][NextQueue]_vars

\* The places a message can be in: the positions of the queue, the sends in
\* flight and the pending re-queue timers that hold an item of message m.
InQueue(m) == { i \in 1..Len(messageQueue.queue) : messageQueue.queue[i].id = m }
InSending(m) == { item \in messageQueue.sending : item.id = m }
InTimeouts(m) == { t \in messageQueue.timeouts : t.item.id = m }
Occurrences(m) ==
  Cardinality(InQueue(m)) + Cardinality(InSending(m)) + Cardinality(InTimeouts(m))

(***************************************************************************)
(* C33  Exponential backoff of the delivery retries.                       *)
(*                                                                         *)
(* The delay before a failed message is put back doubles with the retry    *)
(* count: the timer set for retry r waits 5000 * 2^(r-1) ms.  Line 98      *)
(* computes 5000 * queueItem.retries (5000, 10000, 15000).                 *)
(***************************************************************************)
C33_DelayDoublesWithRetries ==
  \A t \in messageQueue.timeouts : t.delay = 5000 * 2^(t.item.retries - 1)

(***************************************************************************)
(* C34  Bounded attempts, no second delivery, one place per message.       *)
(*                                                                         *)
(* Every message is attempted at most maxRetries + 1 = 4 times and is      *)
(* dropped after the 4th failure; a message whose send resolved is in no   *)
(* place any more (so it is never sent again) and was delivered once; and  *)
(* a message is at any time in at most one of: the queue, a send in        *)
(* flight, a pending re-queue timer.                                       *)
(***************************************************************************)
C34_AtMostFourAttemptsOnePlace ==
  \A m \in Messages :
     /\ Occurrences(m) <= 1
     /\ messageQueue.attempts[m] <= maxRetries + 1
     /\ messageQueue.delivered[m] <= 1
     /\ messageQueue.delivered[m] = 1 => Occurrences(m) = 0 /\ m \notin messageQueue.dropped
     /\ m \in messageQueue.dropped
          => messageQueue.attempts[m] = maxRetries + 1 /\ Occurrences(m) = 0
     /\ ( /\ messageQueue.attempts[m] = maxRetries + 1
          /\ InSending(m) = {}
          /\ messageQueue.delivered[m] = 0 ) => m \in messageQueue.dropped
     /\ \A i \in InQueue(m) : messageQueue.queue[i].retries = messageQueue.attempts[m]
     /\ \A t \in InTimeouts(m) : t.item.retries = messageQueue.attempts[m]
     /\ \A item \in InSending(m) : item.retries + 1 = messageQueue.attempts[m]

\* One message was given up after its fourth failure, another was delivered
\* at a retry.
C34_Witness ==
  \E m, k \in Messages :
     /\ m \in messageQueue.dropped
     /\ messageQueue.attempts[m] = maxRetries + 1
     /\ messageQueue.delivered[k] = 1
     /\ messageQueue.attempts[k] > 1

(***************************************************************************)
(* C35  Liveness of the queue.                                             *)
(*                                                                         *)
(* The interval timer keeps firing while it exists, a send in flight       *)
(* settles and a pending re-queue timer fires; addMessage is called only   *)
(* when a caller has a message.  Under these conditions every message      *)
(* handed to addMessage is eventually delivered or dropped.  A message the *)
(* re-queue timer puts back after processBatch stopped the processing on   *)
(* an empty queue stays in the queue: line 97 does not call                *)
(* startProcessing.                                                        *)
(***************************************************************************)
SpecQueueFair ==
  /\ Init /\ [][NextQueue]_vars
  /\ WF_vars(\E h \in Handles : processBatch(h))
  /\ \A item \in QueueItems : WF_vars(SendResolved(item) \/ SendRejected(item))
  /\ \A t \in QueueTimeouts : WF_vars(RequeueTimerFires(t))

C35_EveryMessageSettles ==
  \A m \in Messages :
     (m \in messageQueue.added)
        ~> (messageQueue.delivered[m] = 1 \/ m \in messageQueue.dropped)

(***************************************************************************)
(* The public methods of the queue called in any order: besides the calls  *)
(* the queue makes itself, a caller may call startProcessing and           *)
(* stopProcessing at any time.                                             *)
(***************************************************************************)
\* Lines 40-49 called from outside.
StartProcessingCalled ==
  /\ messageQueue' = startProcessing(messageQueue)
  /\ messageQueue' # messageQueue
  /\ UNCHANGED << botVars, telegramBot, deepseekService, priceService >>

\* Lines 52-59 called from outside.
StopProcessingCalled ==
  /\ messageQueue' = stopProcessing(messageQueue)
  /\ messageQueue' # messageQueue
  /\ UNCHANGED << botVars, telegramBot, deepseekService, priceService >>

NextQueueApi ==
  \/ \E m \in Messages : addMessage(m)
  \/ \E h \in Handles : processBatch(h)
  \/ \E item \in QueueItems : SendResolved(item)
  \/ \E item \in QueueItems : SendRejected(item)
  \/ \E t \in QueueTimeouts : RequeueTimerFires(t)
  \/ StartProcessingCalled
  \/ StopProcessingCalled

SpecQueueApi == Init /\ [][NextQueueApi]_vars

(***************************************************************************)
(* C39  isProcessing and the interval timer.                               *)
(*                                                                         *)
(* isProcessing is true exactly when processingInterval is not null, the   *)
(* timer processingInterval names is the only interval timer that exists,  *)
(* and none exists when it is null: at most one interval timer at any      *)
(* time, whatever the order of addMessage, startProcessing, stopProcessing *)
(* and processBatch.                                                       *)
(***************************************************************************)
C39_ProcessingIffOneInterval ==
  /\ messageQueue.isProcessing <=> messageQueue.processingInterval # 0
  /\ Cardinality(messageQueue.intervals) <= 1
  /\ messageQueue.processingInterval # 0
       => messageQueue.intervals = { messageQueue.processingInterval }
  /\ messageQueue.processingInterval = 0 => messageQueue.intervals = {}

\* The processing was stopped on an empty queue and started again: a
\* message is settled, another waits, and the timer is installed.
C39_Witness ==
  /\ messageQueue.isProcessing
  /\ messageQueue.processingInterval # 0
  /\ messageQueue.queue # << >>
  /\ \E m \in Messages : messageQueue.delivered[m] = 1

(***************************************************************************)
(* Callback de-duplication: the 'callback_query' listener (lines 197-216)  *)
(* and handleCallbackQuery (lines 310-353).  What the handlers do to the   *)
(* bot's state is the subject of Spec; here a handler only resolves or     *)
(* rejects.                                                                *)
(***************************************************************************)
\* Line 198: `${callbackQuery.id}_${callbackQuery.data}`.
CallbackId(q) == ToString(q.id) \o <<"_">> \o q.data

\* Line 201: the duplicate test.
NeverDuplicate(bot, callbackId) == FALSE

IsDuplicate(bot, callbackId) == callbackId \in bot.processedCallbacks

\* Lines 197-209: the listener runs for query q.  A duplicate is ignored;
\* otherwise the key is added and handleCallbackQuery is called, which runs
\* up to `await this.bot.answerCallbackQuery` (line 318).
CallbackQueryReceived(q) ==
  /\ telegramBot.updates < MaxUpdates
  /\ telegramBot' =
       IF IsDuplicate(telegramBot, CallbackId(q))
       THEN [telegramBot EXCEPT !.updates = @ + 1]
       ELSE [telegramBot EXCEPT
               !.updates = @ + 1,
               !.processedCallbacks = @ \cup { CallbackId(q) },
               !.dispatched[q] = @ + 1,
               !.dispatches = @ \cup { [ query |-> q,
                                         serial |-> telegramBot.dispatched[q] + 1,
                                         pc |-> "answerCallbackQuery" ] }]
  /\ UNCHANGED << botVars, messageQueue, deepseekService, priceService >>

\* The call d moves on to the await named pc.
DispatchMoves(bot, d, pc) ==
  [bot EXCEPT !.dispatches = (@ \ {d}) \cup { [d EXCEPT !.pc = pc] }]

\* handleCallbackQuery returned: its promise resolves and the .catch of
\* line 209 does not run.
DispatchResolves(bot, d) == [bot EXCEPT !.dispatches = @ \ {d}]

\* handleCallbackQuery threw: its promise rejects and the .catch of lines
\* 209-215 deletes the key.
DispatchRejects(bot, d) ==
  [bot EXCEPT !.dispatches = @ \ {d},
              !.rejected[d.query] = @ + 1,
              !.processedCallbacks = @ \ { CallbackId(d.query) }]

\* Line 318 settled: the switch calls the handler of the button and awaits
\* it (lines 320-348), or the rejection is caught at line 349 and the
\* apology is sent (line 351).
AnswerCallbackQueryDone(d, ok) ==
  /\ d \in telegramBot.dispatches /\ d.pc = "answerCallbackQuery"
  /\ telegramBot' = DispatchMoves(telegramBot, d,
                                  IF ok THEN "handler" ELSE "catchSend")
  /\ UNCHANGED << botVars, messageQueue, deepseekService, priceService >>

\* The handler awaited in the switch settled: handleCallbackQuery returns,
\* or the rejection is caught at line 349 and the apology is sent.
HandlerDone(d, ok) ==
  /\ d \in telegramBot.dispatches /\ d.pc = "handler"
  /\ telegramBot' = IF ok THEN DispatchResolves(telegramBot, d)
                    ELSE DispatchMoves(telegramBot, d, "catchSend")
  /\ UNCHANGED << botVars, messageQueue, deepseekService, priceService >>

\* Line 351 settled: the catch block ends and handleCallbackQuery returns,
\* or the send rejected and the exception leaves handleCallbackQuery.
CatchSendDone(d, ok) ==
  /\ d \in telegramBot.dispatches /\ d.pc = "catchSend"
  /\ telegramBot' = IF ok THEN DispatchResolves(telegramBot, d)
                    ELSE DispatchRejects(telegramBot, d)
  /\ UNCHANGED << botVars, messageQueue, deepseekService, priceService >>

Dispatches ==
  [ query : Queries, serial : 1..MaxUpdates,
    pc : {"answerCallbackQuery", "handler", "catchSend"} ]

NextCallbacks ==
  \/ \E q \in Queries : CallbackQueryReceived(q)
  \/ \E d \in Dispatches, ok \in BOOLEAN : AnswerCallbackQueryDone(d, ok)
  \/ \E d \in Dispatches, ok \in BOOLEAN : HandlerDone(d, ok)
  \/ \E d \in Dispatches, ok \in BOOLEAN : CatchSendDone(d, ok)

SpecCallbacks == Init /\ [][NextCallbacks]_vars

(***************************************************************************)
(* C32  Callback de-duplication.                                           *)
(*                                                                         *)
(* While the key of a callback query is in processedCallbacks, exactly one *)
(* handleCallbackQuery call was made for it that did not reject (the one   *)
(* that added the key), so no second call is made while the key is there;  *)
(* and the key is absent only if every call made for the query rejected:   *)
(* it is removed only by the rejection of handleCallbackQuery.             *)
(***************************************************************************)
C32_OneDispatchPerKey ==
  \A q \in Queries :
     /\ telegramBot.dispatched[q] - telegramBot.rejected[q]
          = IF CallbackId(q) \in telegramBot.processedCallbacks THEN 1 ELSE 0
     /\ Cardinality({ d \in telegramBot.dispatches : d.query = q }) <= 1
     /\ \A r \in Queries : CallbackId(r) = CallbackId(q) => r = q

\* A query was delivered again while its key was in the set and was
\* ignored, and another was dispatched a second time after its first call
\* rejected.
C32_Witness ==
  \E q, r \in Queries :
     /\ telegramBot.dispatched[q] = 1 /\ telegramBot.rejected[q] = 0
     /\ telegramBot.dispatched[r] = 2 /\ telegramBot.rejected[r] = 1
     /\ \A x \in Queries \ {q, r} : telegramBot.dispatched[x] = 0
     /\ telegramBot.updates > 3

(***************************************************************************)
(* The sentence service: shouldResetCache and generateRussianSentence      *)
(* (src/src/services/deepseek.js lines 14-211).                            *)
(***************************************************************************)
\* Lines 15-20: the key of the 6-hour block of the Moscow time t,
\* `${moscowTime.toDateString()}_${sixHourBlock}`.
CurrentBlockKey(t) == ToString(t \div 24) \o <<"_">> \o ToString((t % 24) \div 6)

\* Lines 14-30: shouldResetCache.
shouldResetCache(svc) ==
  IF svc.lastCacheDate # CurrentBlockKey(svc.clock)
  THEN [svc EXCEPT !.sentenceCache = [l \in Levels |-> "none"],
                   !.lastCacheDate = CurrentBlockKey(svc.clock),
                   !.generated = [l \in Levels |-> "none"]]
  ELSE svc

\* Lines 150 and 198: the tests that allow another call.
MayRetryErrorInclusive(retryCount) == retryCount <= 3

MayRetryDuplicate(retryCount) == retryCount < 3

MayRetryError(retryCount) == retryCount < 3

\* Lines 33-47: a call generateRussianSentence(level, retryCount) of caller
\* c begins: the cache is reset if a new block has begun, a cached sentence
\* is returned, and otherwise the call awaits database.getRecentSentences.
Enter(svc, c, level, retryCount) ==
  LET fresh == shouldResetCache(svc)
      cached == fresh.sentenceCache[level]
  IN IF cached # "none"
     THEN IF retryCount = 0
          THEN fresh
          ELSE [fresh EXCEPT !.gen[c].pc = "done", !.gen[c].level = 1,
                             !.gen[c].retryCount = 0,
                             !.gen[c].result = cached]
     ELSE [fresh EXCEPT
             !.gen[c] = [ pc |-> "getRecentSentences", level |-> level,
                          retryCount |-> retryCount,
                          apiCalls |-> IF retryCount = 0 THEN 0
                                       ELSE svc.gen[c].apiCalls,
                          result |-> "none" ]]

\* Lines 193-210: the outer catch block: wait and call again, or rethrow.
CatchGenerate(svc, c) ==
  IF MayRetryError(svc.gen[c].retryCount)
  THEN [svc EXCEPT !.gen[c].pc = "retryDelay"]
  ELSE [svc EXCEPT !.gen[c].pc = "done", !.gen[c].level = 1,
                   !.gen[c].retryCount = 0, !.gen[c].result = "rejected"]

\* A caller (scheduler.js:36, messageQueue.js:962) calls
\* generateRussianSentence(level).
GenerateCalled(c, level) ==
  /\ deepseekService.gen[c].pc \in {"idle", "done"}
  /\ \A d \in Callers : d < c => deepseekService.gen[d].pc \notin {"idle", "done"}
  /\ deepseekService.generations < MaxGenerations
  /\ deepseekService' =
       Enter([deepseekService EXCEPT !.generations = @ + 1], c, level, 0)
  /\ UNCHANGED << botVars, messageQueue, telegramBot, priceService >>

\* Line 47 settled: the prompt is built and axios.post is awaited (line
\* 94), or the rejection reaches the outer catch.
RecentSentencesDone(c, ok) ==
  /\ deepseekService.gen[c].pc = "getRecentSentences"
  /\ deepseekService' =
       IF ok THEN [deepseekService EXCEPT !.gen[c].pc = "axios.post",
                                          !.gen[c].apiCalls = @ + 1]
       ELSE CatchGenerate(deepseekService, c)
  /\ UNCHANGED << botVars, messageQueue, telegramBot, priceService >>

\* Line 94 rejected, or the answer could not be parsed or had no Russian
\* text (lines 111-131, 189-193): the outer catch.
ApiFailed(c) ==
  /\ deepseekService.gen[c].pc = "axios.post"
  /\ deepseekService' = CatchGenerate(deepseekService, c)
  /\ UNCHANGED << botVars, messageQueue, telegramBot, priceService >>

\* Line 94 resolved with a sentence (lines 111-188): a duplicate of a
\* recent sentence is generated again after a second while retries remain;
\* otherwise the sentence is cached and returned.
ApiAnswered(c, sentence, isDuplicate) ==
  /\ deepseekService.gen[c].pc = "axios.post"
  /\ deepseekService' =
       IF isDuplicate /\ MayRetryDuplicate(deepseekService.gen[c].retryCount)
       THEN [deepseekService EXCEPT !.gen[c].pc = "duplicateDelay"]
       ELSE [deepseekService EXCEPT
               !.sentenceCache[deepseekService.gen[c].level] = sentence,
               !.generated[deepseekService.gen[c].level] =
                  IF @ = "none" THEN sentence ELSE @,
               !.gen[c].pc = "done", !.gen[c].level = 1,
               !.gen[c].retryCount = 0, !.gen[c].result = sentence]
  /\ UNCHANGED << botVars, messageQueue, telegramBot, priceService >>

\* The delay of line 152 or of line 204 is over: the call returns what
\* generateRussianSentence(level, retryCount + 1) returns.
GenerateAgain(c) ==
  /\ deepseekService.gen[c].pc \in {"duplicateDelay", "retryDelay"}
  /\ deepseekService' = Enter(deepseekService, c, deepseekService.gen[c].level,
                              deepseekService.gen[c].retryCount + 1)
  /\ UNCHANGED << botVars, messageQueue, telegramBot, priceService >>

\* An hour passes in Moscow.
HourPasses ==
  /\ deepseekService.clock < MaxHours
  /\ deepseekService' = [deepseekService EXCEPT !.clock = @ + 1]
  /\ UNCHANGED << botVars, messageQueue, telegramBot, priceService >>

NextSentences ==
  \/ \E c \in Callers, level \in Levels : GenerateCalled(c, level)
  \/ \E c \in Callers, ok \in BOOLEAN : RecentSentencesDone(c, ok)
  \/ \E c \in Callers : ApiFailed(c)
  \/ \E c \in Callers, sentence \in Sentences, isDuplicate \in BOOLEAN :
        ApiAnswered(c, sentence, isDuplicate)
  \/ \E c \in Callers : GenerateAgain(c)
  \/ HourPasses

SpecSentences == Init /\ [][NextSentences]_vars

(***************************************************************************)
(* C36  generateRussianSentence makes at most 4 API calls and terminates.  *)
(*                                                                         *)
(* The database query, the API call and the two delays settle.  Then a     *)
(* top-level call never makes more than 4 axios.post calls (retries after  *)
(* errors and after duplicates counted together: retryCount never exceeds  *)
(* 3), it rejects only from the call with retryCount 3, i.e. at the 4th    *)
(* attempt, and every call that has begun ends: it returns a sentence or   *)
(* rejects.                                                                *)
(***************************************************************************)
SpecSentencesFair ==
  /\ Init /\ [][NextSentences]_vars
  /\ \A c \in Callers :
        WF_vars(\/ \E ok \in BOOLEAN : RecentSentencesDone(c, ok)
                \/ ApiFailed(c)
                \/ \E sentence \in Sentences, isDuplicate \in BOOLEAN :
                      ApiAnswered(c, sentence, isDuplicate)
                \/ GenerateAgain(c))

GenRunning(c) == deepseekService.gen[c].pc \notin {"idle", "done"}

C37_CachedSentenceIsStable ==
  \A l \in Levels :
     deepseekService.sentenceCache[l] # "none"
        => deepseekService.sentenceCache[l] = deepseekService.generated[l]

(***************************************************************************)
(* The price service: getTonPriceUSD (priceService.js lines 21-63) and the *)
(* use handleSubscribe makes of it (messageQueue.js lines 415-425).        *)
(***************************************************************************)
\* priceService.js line 13: this.cache.cacheDuration.
cacheDuration == 3600000

\* messageQueue.js lines 415-425 with getTonAmountForUSD (priceService.js
\* lines 86-97): Math.floor((1.0 / price) * 1000000000), with the fallback
\* price 2.5 when the price is null.
TonAmountNano(price) ==
  IF price = 0 THEN FallbackTonAmountNano ELSE 1000000000 \div price

\* getTonPriceUSD of caller c returns `result`; handleSubscribe goes on.
QuoteReturns(svc, c, result) ==
  [svc EXCEPT !.quote[c].pc = "done", !.quote[c].result = result,
              !.quote[c].cached = svc.cache.price,
              !.quote[c].tonAmountNano = TonAmountNano(result)]

\* Lines 22-39: getTonPriceUSD is called: a cached price younger than
\* cacheDuration is returned, otherwise axios.get is awaited.
PriceRequested(c) ==
  /\ priceService.quote[c].pc \in {"idle", "done"}
  /\ \A d \in Callers : d < c => priceService.quote[d].pc = "fetch"
  /\ priceService.requests < MaxPriceCalls
  /\ LET called == [priceService EXCEPT !.requests = @ + 1,
                                        !.quote[c] = [IdleQuote EXCEPT !.now = priceService.clock]]
     IN priceService' =
          IF /\ called.cache.price # 0
             /\ called.clock - called.cache.timestamp < cacheDuration
          THEN QuoteReturns(called, c, called.cache.price)
          ELSE [called EXCEPT !.quote[c].pc = "fetch", !.fetches = @ + 1]
  /\ UNCHANGED << botVars, messageQueue, telegramBot, deepseekService >>

\* Lines 41-53: the request resolved; `price` is the usd field of the
\* answer, 0 when the answer has none.
PriceFetchAnswered(c, price) ==
  /\ priceService.quote[c].pc = "fetch"
  /\ priceService' =
       IF price = 0
       THEN QuoteReturns(priceService, c, 0)
       ELSE QuoteReturns([priceService EXCEPT
                            !.cache = [ price |-> price,
                                        timestamp |-> priceService.quote[c].now ]],
                         c, price)
  /\ UNCHANGED << botVars, messageQueue, telegramBot, deepseekService >>

\* Lines 55-62: the request rejected (or timed out): the cached price, if
\* any, is returned.
PriceFetchRejected(c) ==
  /\ priceService.quote[c].pc = "fetch"
  /\ priceService' = QuoteReturns(priceService, c, priceService.cache.price)
  /\ UNCHANGED << botVars, messageQueue, telegramBot, deepseekService >>

\* Half an hour passes.
HalfHourPasses ==
  /\ priceService.clock < MaxHalfHours * 1800000
  /\ priceService' = [priceService EXCEPT !.clock = @ + 1800000]
  /\ UNCHANGED << botVars, messageQueue, telegramBot, deepseekService >>

NextPrice ==
  \/ \E c \in Callers : PriceRequested(c)
  \/ \E c \in Callers, price \in Prices \cup {0} : PriceFetchAnswered(c, price)
  \/ \E c \in Callers : PriceFetchRejected(c)
  \/ HalfHourPasses

SpecPrice == Init /\ [][NextPrice]_vars

(***************************************************************************)
(* C38  The price cache.                                                   *)
(*                                                                         *)
(* getTonPriceUSD returns null only when no price was ever cached: a call  *)
(* that returned null found this.cache.price null.  Lines 42-45 return     *)
(* null when the answer of CoinGecko carries no price, whatever the cache  *)
(* holds.                                                                  *)
(***************************************************************************)
C38_NullOnlyWhenNeverCached ==
  \A c \in Callers :
     priceService.quote[c].pc = "done" /\ priceService.quote[c].result = 0
        => priceService.quote[c].cached = 0
====
